---- MODULE Spec2Model ----
(***************************************************************************)
(* A model of the YouTube transcript extractor (src/youtube_extractor.py): *)
(* the time-string parser, the URL parser and the segment selection of     *)
(* YouTubeExtractor.extract_segment.                                       *)
(*                                                                         *)
(* Python strings are sequences of one-character strings, so that parsing  *)
(* and formatting are computed character by character.  Python values of   *)
(* mixed type (None / str / int) are tagged records.                       *)
(***************************************************************************)
EXTENDS Integers, Sequences, FiniteSets, TLC

VARIABLES
    time_form,    \* how the time string under test was built (none when idle)
    time_str,     \* argument of _parse_time_param: PyNone or PyStr
    time_res,     \* its outcome: Pending, Ok(seconds) or Raise(error)
    url_form,     \* how the URL under test was built
    url,          \* argument of parse_youtube_url: a string
    url_res,      \* its outcome: Pending, Ok(<<video_id, start>>) or Raise(error)
    args,         \* arguments of extract_segment: url, duration, start_time, end_time
    transcript,   \* what fetch_transcript gave extract_segment: Pending, Ok(entries) or Raise
    segment,      \* outcome of extract_segment: Pending, Ok(VideoSegment) or Raise(error)
    repeat,       \* outcome of a second, identical call of extract_segment
    caller,       \* what drives an extraction run: the /extract route or the script
    pc,           \* the statement an extraction run has reached
    trace,        \* the steps the run has taken, in order, each with its outcome
    summary,      \* outcome of process_video_segment: Pending, Ok(TranscriptSummary) or Raise
    stored,       \* outcome of save_summary_to_firestore: Pending, Ok(document) or Raise
    route_result, \* what the /extract route answers: Pending until it returns
    segments,     \* the Firestore collection 'segments': document id -> document
    videos,       \* the Firestore collection 'videos': video id -> document
    issued,       \* the identifiers uuid4 has given out
    call,         \* the last call of a FirebaseStorage method, with what it returned
    saved,        \* what save_complete_segment was given, by the identifier it returned
    touched,      \* the identifiers an update or a delete was applied to
    raised,       \* whether a call of a FirebaseStorage method has raised
    extractor,    \* the fields of the YouTubeExtractor the concurrent callers share
    captions,     \* the caption entry list given to the concurrent callers
    threads,      \* per concurrent caller: its call, the statement it is at, its result
    frames        \* the local variables of the calls in progress, by frame

time_vars == <<time_form, time_str, time_res>>
url_vars == <<url_form, url, url_res>>
extract_vars == <<args, transcript, segment, repeat>>
run_vars == <<caller, pc, trace, summary, stored, route_result>>
store_vars == <<segments, videos, issued, call, saved, touched, raised>>
conc_vars == <<extractor, captions, threads, frames>>

vars == <<time_vars, url_vars, extract_vars, run_vars, store_vars, conc_vars>>

-----------------------------------------------------------------------------
(* Python values and call outcomes *)

PyNone == [tag |-> "none"]
PyStr(s) == [tag |-> "str", s |-> s]
PyInt(n) == [tag |-> "int", n |-> n]
PyList(xs) == [tag |-> "list", xs |-> xs]

Pending == [st |-> "pending"]
Ok(v) == [st |-> "ok", val |-> v]
Raise(e) == [st |-> "raise", err |-> e]

\* The two ValueErrors of the module, told apart by their message.
InvalidLiteral == "ValueError: invalid literal for int() with base 10"
CouldNotExtract == "ValueError: Could not extract video ID from URL"
FetchFailed == "Exception: Failed to fetch transcript"

-----------------------------------------------------------------------------
(* Characters and strings *)

DigitChars == <<"0", "1", "2", "3", "4", "5", "6", "7", "8", "9">>
Digits == {DigitChars[i] : i \in 1..10}
DigitVal(c) == (CHOOSE i \in 1..10 : DigitChars[i] = c) - 1

\* str.isdigit(): non-empty and every character a digit.
IsDigit(s) == Len(s) > 0 /\ \A i \in 1..Len(s) : s[i] \in Digits

\* The value of a string of decimal digits, most significant first.
RECURSIVE DecValue(_)
DecValue(s) ==
    IF s = <<>> THEN 0
    ELSE 10 * DecValue(SubSeq(s, 1, Len(s) - 1)) + DigitVal(s[Len(s)])

\* s without the blanks at its ends, as int() reads it.
RECURSIVE Strip(_)
Strip(s) ==
    IF s = <<>> THEN s
    ELSE IF s[1] = " " THEN Strip(Tail(s))
    ELSE IF s[Len(s)] = " " THEN Strip(SubSeq(s, 1, Len(s) - 1))
    ELSE s

\* Digits of an int literal: single underscores may stand between digits.
GroupedDigits(s) ==
    /\ s # <<>>
    /\ \A i \in 1..Len(s) : s[i] \in Digits \cup {"_"}
    /\ s[1] # "_"
    /\ s[Len(s)] # "_"
    /\ \A i \in 1..(Len(s) - 1) : ~(s[i] = "_" /\ s[i + 1] = "_")

NoUnderscores(s) == SelectSeq(s, LAMBDA c : c # "_")

\* int() of the digits after the sign.
IntOfDigits(sign, s) ==
    IF GroupedDigits(s) THEN Ok(sign * DecValue(NoUnderscores(s)))
    ELSE Raise(InvalidLiteral)

\* int() of a stripped string: an optional sign, then the digits.
IntOfStripped(s) ==
    IF s # <<>> /\ s[1] = "-" THEN IntOfDigits(0 - 1, Tail(s))
    ELSE IF s # <<>> /\ s[1] = "+" THEN IntOfDigits(1, Tail(s))
    ELSE IntOfDigits(1, s)

\* int(s) for a str: blanks around, an optional sign and decimal digits (single
\* underscores between digits allowed); ValueError otherwise.
PyIntOf(s) == IntOfStripped(Strip(s))

\* str(n) for n >= 0.
RECURSIVE DecStr(_)
DecStr(n) ==
    IF n < 10 THEN <<DigitChars[n + 1]>>
    ELSE DecStr(n \div 10) \o <<DigitChars[(n % 10) + 1]>>

\* The first index >= i at which character c occurs in s, Len(s)+1 if none.
RECURSIVE IndexFrom(_, _, _)
IndexFrom(s, c, i) ==
    IF i > Len(s) THEN Len(s) + 1
    ELSE IF s[i] = c THEN i
    ELSE IndexFrom(s, c, i + 1)

\* s.split(c) for a one-character separator.
RECURSIVE Split(_, _)
Split(s, c) ==
    LET i == IndexFrom(s, c, 1)
    IN  IF i > Len(s) THEN <<s>>
        ELSE <<SubSeq(s, 1, i - 1)>> \o Split(SubSeq(s, i + 1, Len(s)), c)

\* needle in s (substring test).
Contains(s, needle) ==
    \E i \in 1..(Len(s) - Len(needle) + 1) : SubSeq(s, i, i + Len(needle) - 1) = needle

\* The end of the longest run of characters of set cs that starts at i
\* (i - 1 when s[i] is not in cs).
RECURSIVE RunEnd(_, _, _)
RunEnd(s, cs, i) ==
    IF i > Len(s) \/ s[i] \notin cs THEN i - 1
    ELSE RunEnd(s, cs, i + 1)

-----------------------------------------------------------------------------
(* YouTubeExtractor._parse_time_param *)

\* re.search(r'(\d+)' + unit, s): group 1 of the leftmost match, or <<>> when
\* there is none.  A match starts at a digit whose maximal digit run is
\* followed by the unit character.
SearchNumberUnit(s, unit) ==
    LET starts == {i \in 1..Len(s) :
                      /\ s[i] \in Digits
                      /\ RunEnd(s, Digits, i) < Len(s)
                      /\ s[RunEnd(s, Digits, i) + 1] = unit}
    IN  IF starts = {} THEN <<>>
        ELSE LET i == CHOOSE i \in starts : \A j \in starts : i <= j
             IN  SubSeq(s, i, RunEnd(s, Digits, i))

\* MarkerSeconds counting the seconds only when the string ends with them.
MutMarkerSeconds(s) ==
    LET hours_match == SearchNumberUnit(s, "h")
        minutes_match == SearchNumberUnit(s, "m")
        seconds_match == IF s[Len(s)] = "s" THEN SearchNumberUnit(s, "s") ELSE <<>>
        h == IF hours_match # <<>> THEN DecValue(hours_match) * 3600 ELSE 0
        m == IF minutes_match # <<>> THEN DecValue(minutes_match) * 60 ELSE 0
        sec == IF seconds_match # <<>> THEN DecValue(seconds_match)
               ELSE IF hours_match = <<>> /\ minutes_match = <<>> /\ IsDigit(s)
                    THEN DecValue(s)
               ELSE 0
    IN  h + m + sec

\* Lines 117-140: the h/m/s marker rule.
MarkerSeconds(s) ==
    LET hours_match == SearchNumberUnit(s, "h")
        minutes_match == SearchNumberUnit(s, "m")
        seconds_match == SearchNumberUnit(s, "s")
        h == IF hours_match # <<>> THEN DecValue(hours_match) * 3600 ELSE 0
        m == IF minutes_match # <<>> THEN DecValue(minutes_match) * 60 ELSE 0
        sec == IF seconds_match # <<>> THEN DecValue(seconds_match)
               ELSE IF hours_match = <<>> /\ minutes_match = <<>> /\ IsDigit(s)
                    THEN DecValue(s)
               ELSE 0
    IN  h + m + sec

\* ColonSeconds counting a part that is no integer as 0.
MutColonSecondsLenient(parts) ==
    LET n == [i \in 1..Len(parts) |->
                 IF PyIntOf(parts[i]).st = "raise" THEN Ok(0) ELSE PyIntOf(parts[i])]
    IN  IF Len(parts) = 3
        THEN Ok(n[1].val * 3600 + n[2].val * 60 + n[3].val)
        ELSE Ok(n[1].val * 60 + n[2].val)

\* ColonSeconds with the hours weighted like minutes.
MutColonSeconds(parts) ==
    LET n == [i \in 1..Len(parts) |-> PyIntOf(parts[i])]
    IN  IF \E i \in 1..Len(parts) : n[i].st = "raise" THEN Raise(InvalidLiteral)
        ELSE IF Len(parts) = 3
             THEN Ok(n[1].val * 60 + n[2].val * 60 + n[3].val)
             ELSE Ok(n[1].val * 60 + n[2].val)

\* Lines 103-115: the colon rule.  The ints are converted left to right and the
\* first failure propagates; any other number of parts falls through.
ColonSeconds(parts) ==
    LET n == [i \in 1..Len(parts) |-> PyIntOf(parts[i])]
    IN  IF \E i \in 1..Len(parts) : n[i].st = "raise" THEN Raise(InvalidLiteral)
        ELSE IF Len(parts) = 3
             THEN Ok(n[1].val * 3600 + n[2].val * 60 + n[3].val)
             ELSE Ok(n[1].val * 60 + n[2].val)

ParseTimeParam(t) ==
    IF t.tag = "none" \/ t.s = <<>> THEN Ok(0)
    ELSE IF IsDigit(t.s) THEN Ok(DecValue(t.s))
    ELSE IF Contains(t.s, <<":">>) /\ Len(Split(t.s, ":")) \in {2, 3}
         THEN ColonSeconds(Split(t.s, ":"))
    ELSE Ok(MarkerSeconds(t.s))

-----------------------------------------------------------------------------
(* urllib.parse.urlparse and parse_qs, as far as parse_youtube_url uses them. *)
(* The strings under test hold no '#', ';', '%', '+', '[' or whitespace, so   *)
(* fragments, path parameters, percent-decoding and IPv6 hosts do not arise.  *)

UpperChars == <<"A", "B", "C", "D", "E", "F", "G", "H", "I", "J", "K", "L", "M", "N", "O", "P", "Q", "R", "S", "T", "U", "V", "W", "X", "Y", "Z">>
LowerChars == <<"a", "b", "c", "d", "e", "f", "g", "h", "i", "j", "k", "l", "m", "n", "o", "p", "q", "r", "s", "t", "u", "v", "w", "x", "y", "z">>
Letters == {UpperChars[i] : i \in 1..26} \cup {LowerChars[i] : i \in 1..26}

\* str.lower()
LowerChar(c) ==
    IF \E i \in 1..26 : UpperChars[i] = c
    THEN LowerChars[CHOOSE i \in 1..26 : UpperChars[i] = c]
    ELSE c
Lower(s) == [i \in 1..Len(s) |-> LowerChar(s[i])]

\* urlsplit's scheme_chars
SchemeChars == Letters \cup Digits \cup {"+", "-", "."}

Min3(a, b, c) == IF a <= b /\ a <= c THEN a ELSE IF b <= c THEN b ELSE c

\* urlsplit, last step: the query is what follows the first '?'.
SplitQuery(scheme, netloc, r) ==
    [scheme |-> scheme,
     netloc |-> netloc,
     path |-> SubSeq(r, 1, IndexFrom(r, "?", 1) - 1),
     query |-> SubSeq(r, IndexFrom(r, "?", 1) + 1, Len(r))]

\* urlsplit: the fragment, what follows the first '#', is cut off.
SplitFragment(scheme, netloc, r) ==
    SplitQuery(scheme, netloc, SubSeq(r, 1, IndexFrom(r, "#", 1) - 1))

\* _splitnetloc: the netloc ends before the first of '/', '?' and '#'.
NetlocEnd(r) == Min3(IndexFrom(r, "/", 3), IndexFrom(r, "?", 3), IndexFrom(r, "#", 3))

\* urlsplit: a netloc follows a leading '//'.
SplitNetloc(scheme, r) ==
    IF Len(r) >= 2 /\ SubSeq(r, 1, 2) = <<"/", "/">>
    THEN SplitFragment(scheme, SubSeq(r, 3, NetlocEnd(r) - 1),
                       SubSeq(r, NetlocEnd(r), Len(r)))
    ELSE SplitFragment(scheme, <<>>, r)

\* urlsplit: the position of the ':' that ends the scheme, 0 when the URL has
\* no scheme (no ':', or other than scheme characters before it).
SchemeEnd(u) ==
    LET i == IndexFrom(u, ":", 1)
    IN  IF /\ 1 < i
           /\ i <= Len(u)
           /\ u[1] \in Letters
           /\ \A k \in 1..(i - 1) : u[k] \in SchemeChars
        THEN i ELSE 0

\* urlsplit: scheme, netloc, path and query of a URL.
UrlSplit(u) ==
    IF SchemeEnd(u) > 0
    THEN SplitNetloc(Lower(SubSeq(u, 1, SchemeEnd(u) - 1)),
                     SubSeq(u, SchemeEnd(u) + 1, Len(u)))
    ELSE SplitNetloc(<<>>, u)

\* The last index at which c occurs in s, 0 if none.
RECURSIVE LastIndex(_, _, _)
LastIndex(s, c, i) ==
    IF i = 0 THEN 0 ELSE IF s[i] = c THEN i ELSE LastIndex(s, c, i - 1)

\* ParseResult.hostname: the netloc without user info and port, lowercased;
\* None when empty.
Hostname(netloc) ==
    LET hostinfo == SubSeq(netloc, LastIndex(netloc, "@", Len(netloc)) + 1, Len(netloc))
        host == SubSeq(hostinfo, 1, IndexFrom(hostinfo, ":", 1) - 1)
    IN  IF host = <<>> THEN PyNone ELSE PyStr(Lower(host))

\* parse_qsl without keep_blank_values: the name=value pairs of the query in
\* order; a field without '=' or with an empty value is dropped.
RECURSIVE ParseQsl(_)
ParseQsl(fields) ==
    IF fields = <<>> THEN <<>>
    ELSE LET nv == fields[1]
             e == IndexFrom(nv, "=", 1)
         IN  (IF e < Len(nv)
              THEN <<[name |-> SubSeq(nv, 1, e - 1), value |-> SubSeq(nv, e + 1, Len(nv))]>>
              ELSE <<>>) \o ParseQsl(Tail(fields))

ParseQs(query) == ParseQsl(Split(query, "&"))

\* QueryGet taking the last value of a repeated key.
MutQueryGet(qs, key) ==
    LET hits == {i \in 1..Len(qs) : qs[i].name = key}
    IN  IF hits = {} THEN PyNone
        ELSE PyStr(qs[CHOOSE i \in hits : \A j \in hits : i >= j].value)

\* query_params.get(key, [None])[0]: the first value of key, or None.
QueryGet(qs, key) ==
    LET hits == {i \in 1..Len(qs) : qs[i].name = key}
    IN  IF hits = {} THEN PyNone
        ELSE PyStr(qs[CHOOSE i \in hits : \A j \in hits : i <= j].value)

-----------------------------------------------------------------------------
(* YouTubeExtractor.parse_youtube_url *)

IdChars == Letters \cup Digits \cup {"_", "-"}

S_embed == <<"e", "m", "b", "e", "d", "/">>
S_youtube_embed == <<"y", "o", "u", "t", "u", "b", "e", ".", "c", "o", "m", "/", "e", "m", "b", "e", "d", "/">>
S_watch == <<"/", "w", "a", "t", "c", "h">>
S_www_youtube_com == <<"w", "w", "w", ".", "y", "o", "u", "t", "u", "b", "e", ".", "c", "o", "m">>
S_youtube_com == <<"y", "o", "u", "t", "u", "b", "e", ".", "c", "o", "m">>
S_youtu_be == <<"y", "o", "u", "t", "u", ".", "b", "e">>
S_www_youtu_be == <<"w", "w", "w", ".", "y", "o", "u", "t", "u", ".", "b", "e">>
S_v == <<"v">>
S_t == <<"t">>
S_start == <<"s", "t", "a", "r", "t">>

\* re.search(r'embed/([a-zA-Z0-9_-]+)', url): group 1 of the leftmost match,
\* <<>> when there is none.
SearchEmbedId(u) ==
    LET n == Len(S_embed)
        starts == {i \in 1..(Len(u) - n) :
                      /\ SubSeq(u, i, i + n - 1) = S_embed
                      /\ u[i + n] \in IdChars}
    IN  IF starts = {} THEN <<>>
        ELSE LET i == CHOOSE i \in starts : \A j \in starts : i <= j
             IN  SubSeq(u, i + n, RunEnd(u, IdChars, i + n))

\* path.lstrip('/')
RECURSIVE LStripSlash(_)
LStripSlash(s) == IF s # <<>> /\ s[1] = "/" THEN LStripSlash(Tail(s)) ELSE s

\* Finish testing the video id against None only.
MutFinish(video_id, start_time) ==
    IF video_id.tag = "none" THEN Raise(CouldNotExtract)
    ELSE Ok([video_id |-> video_id.s, start_time |-> start_time])

\* Lines 77-80: no video id raises, otherwise the pair is returned.
Finish(video_id, start_time) ==
    IF video_id.tag = "none" \/ video_id.s = <<>> THEN Raise(CouldNotExtract)
    ELSE Ok([video_id |-> video_id.s, start_time |-> start_time])

\* start_time = <int>: the seconds as an int, or the exception.
AsStartTime(r) == IF r.st = "ok" THEN Ok(PyInt(r.val)) ELSE r

\* Lines 54-56 and 62-64: the t parameter, parsed when it is present.
InlineStart(time_param) ==
    IF time_param.tag = "str" /\ time_param.s # <<>>
    THEN AsStartTime(ParseTimeParam(time_param))
    ELSE Ok(PyNone)

\* Lines 73-75: the start parameter of an embed URL, converted by int().
EmbedStart(start_param) ==
    IF start_param.tag = "str" /\ start_param.s # <<>>
    THEN AsStartTime(PyIntOf(start_param.s))
    ELSE Ok(PyNone)

\* An exception raised while converting the time leaves the function;
\* otherwise lines 77-80 follow.
FinishWith(video_id, start_time) ==
    IF start_time.st = "raise" THEN start_time
    ELSE Finish(video_id, start_time.val)

\* Lines 48-80, given the hostname, the path and the parsed query.
ParseSplitUrl(u, hostname, path, query_params) ==
    IF hostname.tag = "str" /\ hostname.s \in {S_www_youtube_com, S_youtube_com}
    THEN IF path = S_watch
         THEN FinishWith(QueryGet(query_params, S_v),
                         InlineStart(QueryGet(query_params, S_t)))
         ELSE Finish(PyNone, PyNone)
    ELSE IF hostname.tag = "str" /\ hostname.s \in {S_youtu_be, S_www_youtu_be}
    THEN FinishWith(PyStr(LStripSlash(path)), InlineStart(QueryGet(query_params, S_t)))
    ELSE IF Contains(u, S_youtube_embed)
    THEN IF SearchEmbedId(u) # <<>>
         THEN FinishWith(PyStr(SearchEmbedId(u)),
                         EmbedStart(QueryGet(query_params, S_start)))
         ELSE Finish(PyNone, PyNone)
    ELSE Finish(PyNone, PyNone)

\* Line 43 and what parse_youtube_url reads of its result.
ParseUrlParts(u, parsed) ==
    ParseSplitUrl(u, Hostname(parsed.netloc), parsed.path, ParseQs(parsed.query))

ParseYoutubeUrl(u) == ParseUrlParts(u, UrlSplit(u))

-----------------------------------------------------------------------------
(* YouTubeExtractor.extract_segment *)

\* str(n) of an int, as the f-string of line 268 writes it.
PyStrOfInt(n) == IF n < 0 THEN <<"-">> \o DecStr(0 - n) ELSE DecStr(n)

\* s.split(sep)[0]: s up to the first occurrence of sep.
BeforeFirst(s, sep) ==
    LET hits == {i \in 1..(Len(s) - Len(sep) + 1) : SubSeq(s, i, i + Len(sep) - 1) = sep}
    IN  IF hits = {} THEN s
        ELSE SubSeq(s, 1, (CHOOSE i \in hits : \A j \in hits : i <= j) - 1)

\* Lines 264-270: the URL stored with the segment.
FinalUrl(u, start_seconds) ==
    LET clean_url == BeforeFirst(BeforeFirst(u, <<"&", "t", "=">>), <<"?", "t", "=">>)
    IN  clean_url \o (IF Contains(clean_url, <<"?">>) THEN <<"&">> ELSE <<"?">>)
        \o <<"t", "=">> \o PyStrOfInt(start_seconds)

\* Lines 199-206 and 212-217: a time argument is parsed when it is a str and
\* taken as it is otherwise.
TimeArgSeconds(t) == IF t.tag = "str" THEN ParseTimeParam(t) ELSE Ok(t.n)

\* ResolveStart preferring the timestamp of the URL to the argument.
MutResolveStart(start_time, url_start_time) ==
    IF url_start_time.tag # "none" THEN Ok(url_start_time.n)
    ELSE IF start_time.tag # "none" THEN TimeArgSeconds(start_time)
    ELSE Ok(0)

\* Lines 198-206: the start of the window.
ResolveStart(start_time, url_start_time) ==
    IF start_time.tag # "none" THEN TimeArgSeconds(start_time)
    ELSE IF url_start_time.tag # "none" THEN Ok(url_start_time.n)
    ELSE Ok(0)

\* ResolveEnd preferring the duration to the explicit end.
MutResolveEndDuration(end_time, duration, start_seconds, transcript_segments) ==
    IF duration.tag # "none" /\ duration.n # 0 THEN Ok(start_seconds + duration.n)
    ELSE IF end_time.tag # "none" THEN TimeArgSeconds(end_time)
    ELSE IF transcript_segments # <<>>
         THEN LET last_segment == transcript_segments[Len(transcript_segments)]
              IN  Ok(last_segment.start + last_segment.duration)
    ELSE Ok(start_seconds)

\* ResolveEnd running to the end of the first entry instead of the last.
MutResolveEndFirst(end_time, duration, start_seconds, transcript_segments) ==
    IF end_time.tag # "none" THEN TimeArgSeconds(end_time)
    ELSE IF duration.tag # "none" /\ duration.n # 0 THEN Ok(start_seconds + duration.n)
    ELSE IF transcript_segments # <<>>
         THEN LET last_segment == transcript_segments[1]
              IN  Ok(last_segment.start + last_segment.duration)
    ELSE Ok(start_seconds)

\* Lines 211-230: the end of the window.  `elif duration:` is false for None
\* and for 0.
ResolveEnd(end_time, duration, start_seconds, transcript_segments) ==
    IF end_time.tag # "none" THEN TimeArgSeconds(end_time)
    ELSE IF duration.tag # "none" /\ duration.n # 0 THEN Ok(start_seconds + duration.n)
    ELSE IF transcript_segments # <<>>
         THEN LET last_segment == transcript_segments[Len(transcript_segments)]
              IN  Ok(last_segment.start + last_segment.duration)
    ELSE Ok(start_seconds)

\* Overlaps excluding an entry that starts exactly at the end of the window.
MutOverlapsBeforeEnd(seg, start_seconds, end_seconds) ==
    seg.start + seg.duration >= start_seconds /\ seg.start < end_seconds

\* Overlaps excluding an entry that ends exactly at the start of the window.
MutOverlaps(seg, start_seconds, end_seconds) ==
    seg.start + seg.duration > start_seconds /\ seg.start <= end_seconds

\* Line 257: the entry overlaps the window.
Overlaps(seg, start_seconds, end_seconds) ==
    seg.start + seg.duration >= start_seconds /\ seg.start <= end_seconds

\* Lines 233-259: the loop over the transcript, appending each overlapping
\* entry to relevant_segments and its text to combined_text.  Both shapes of
\* entry (attribute-style and mapping-style) carry start, duration and text and
\* yield the same dict.
RECURSIVE SelectLoop(_, _, _)
SelectLoop(segs, start_seconds, end_seconds) ==
    IF segs = <<>> THEN [relevant_segments |-> <<>>, combined_text |-> <<>>]
    ELSE LET rest == SelectLoop(Tail(segs), start_seconds, end_seconds)
         IN  IF Overlaps(segs[1], start_seconds, end_seconds)
             THEN [relevant_segments |-> <<segs[1]>> \o rest.relevant_segments,
                   combined_text |-> <<segs[1].text>> \o rest.combined_text]
             ELSE rest

\* Join without the separator.
RECURSIVE MutJoinSpace(_)
MutJoinSpace(texts) ==
    IF texts = <<>> THEN <<>> ELSE texts[1] \o MutJoinSpace(Tail(texts))

\* Line 262: ' '.join(combined_text)
RECURSIVE JoinSpace(_)
JoinSpace(texts) ==
    IF texts = <<>> THEN <<>>
    ELSE IF Len(texts) = 1 THEN texts[1]
    ELSE texts[1] \o <<" ">> \o JoinSpace(Tail(texts))

\* ExtractSelected consuming the first entry of the transcript it was given.
MutExtractSelected(a, fetch, video_id, start_seconds, end_seconds, sel) ==
    [fetched |-> IF fetch.val = <<>> THEN fetch ELSE Ok(Tail(fetch.val)),
     result |-> Ok([video_id |-> video_id,
                    url |-> FinalUrl(a.url, start_seconds),
                    start_time |-> start_seconds,
                    end_time |-> end_seconds,
                    transcript |-> JoinSpace(sel.combined_text),
                    raw_segments |-> sel.relevant_segments])]

\* Lines 261-279: the VideoSegment returned.
ExtractSelected(a, fetch, video_id, start_seconds, end_seconds, sel) ==
    [fetched |-> fetch,
     result |-> Ok([video_id |-> video_id,
                    url |-> FinalUrl(a.url, start_seconds),
                    start_time |-> start_seconds,
                    end_time |-> end_seconds,
                    transcript |-> JoinSpace(sel.combined_text),
                    raw_segments |-> sel.relevant_segments])]

\* Lines 211-279, given the outcome of resolving the end.
ExtractEnded(a, fetch, video_id, start_seconds, end) ==
    IF end.st = "raise" THEN [fetched |-> fetch, result |-> end]
    ELSE ExtractSelected(a, fetch, video_id, start_seconds, end.val,
                         SelectLoop(fetch.val, start_seconds, end.val))

\* Lines 198-279, given the outcome of resolving the start: an exception
\* leaves before the fetch, a failed fetch leaves with its exception.
ExtractStarted(a, fetch, video_id, start) ==
    IF start.st = "raise" THEN [fetched |-> Pending, result |-> start]
    ELSE IF fetch.st = "raise" THEN [fetched |-> fetch, result |-> fetch]
    ELSE ExtractEnded(a, fetch, video_id, start.val,
                      ResolveEnd(a.end_time, a.duration, start.val, fetch.val))

\* Lines 196-279, given the outcome of parse_youtube_url.
ExtractParsed(a, fetch, parsed) ==
    IF parsed.st = "raise" THEN [fetched |-> Pending, result |-> parsed]
    ELSE ExtractStarted(a, fetch, parsed.val.video_id,
                        ResolveStart(a.start_time, parsed.val.start_time))

\* extract_segment(url, duration, start_time, end_time), given the outcome of
\* fetch_transcript should it be called.  `fetched` tells what the call of
\* fetch_transcript gave (Pending when the call was never made), `result` is
\* the VideoSegment returned or the exception raised.
ExtractSegment(a, fetch) == ExtractParsed(a, fetch, ParseYoutubeUrl(a.url))

-----------------------------------------------------------------------------
(* An extraction run: TranscriptSummarizer.process_video_segment followed by *)
(* save_summary_to_firestore, driven by the /extract route or by a script.   *)
(* The run is followed statement by statement; the collaborators (the        *)
(* transcript API, the OpenAI client, Firestore) answer or fail.             *)

OpenAIError == "Exception: OpenAI API error"
SaveFailed == "Exception: Failed to save summary to Firestore"

S_en == <<"e", "n">>
S_unknown == <<"u", "n", "k", "n", "o", "w", "n">>
S_v_eq == <<"v", "=">>

\* fetch_transcript, lines 142-143: the languages looked for.
DefaultLanguages(languages) == IF languages = PyNone THEN <<S_en>> ELSE languages.list

\* A step of the run as the trace records it.
Event(op, languages, ok) == [op |-> op, languages |-> languages, ok |-> ok]

\* The languages each request of fetch_transcript is given (lines 150, 154, 157).
LookupLanguages(op, languages) ==
    IF op \in {"find_manually_created_transcript", "find_generated_transcript"}
    THEN DefaultLanguages(languages)
    ELSE <<>>

\* FetchFlow asking again when the listing failed.
MutFetchFlowRetry(op, ok) ==
    IF op = "list" THEN (IF ok THEN "find_manually_created_transcript" ELSE "list")
    ELSE IF op = "find_manually_created_transcript"
         THEN (IF ok THEN "fetch" ELSE "find_generated_transcript")
    ELSE IF op = "find_generated_transcript"
         THEN (IF ok THEN "fetch" ELSE "find_transcript")
    ELSE IF op = "find_transcript" THEN (IF ok THEN "fetch" ELSE "failed")
    ELSE (IF ok THEN "select" ELSE "failed")

\* FetchFlow passing over the auto-generated transcripts.
MutFetchFlowSkip(op, ok) ==
    IF op = "list" THEN (IF ok THEN "find_manually_created_transcript" ELSE "failed")
    ELSE IF op = "find_manually_created_transcript"
         THEN (IF ok THEN "fetch" ELSE "find_transcript")
    ELSE IF op = "find_generated_transcript"
         THEN (IF ok THEN "fetch" ELSE "find_transcript")
    ELSE IF op = "find_transcript" THEN (IF ok THEN "fetch" ELSE "failed")
    ELSE (IF ok THEN "select" ELSE "failed")

\* fetch_transcript, lines 145-176: where control goes after a request to the
\* transcript API.  A failed lookup is caught by the bare except of the next
\* alternative; any other failure reaches the outer except, which raises.
FetchFlow(op, ok) ==
    IF op = "list" THEN (IF ok THEN "find_manually_created_transcript" ELSE "failed")
    ELSE IF op = "find_manually_created_transcript"
         THEN (IF ok THEN "fetch" ELSE "find_generated_transcript")
    ELSE IF op = "find_generated_transcript"
         THEN (IF ok THEN "fetch" ELSE "find_transcript")
    ELSE IF op = "find_transcript" THEN (IF ok THEN "fetch" ELSE "failed")
    ELSE (IF ok THEN "select" ELSE "failed")

\* AfterStage going on after an exception.
MutAfterStage(outcome, next) == next

\* No statement of process_video_segment or of its callers catches an
\* exception of a stage: it leaves the run.
AfterStage(outcome, next) == IF outcome.st = "raise" THEN "failed" ELSE next

\* What the exception of a stage leaves in a result not yet there.
Propagated(outcome, old) == IF outcome.st = "raise" THEN outcome ELSE old

\* extract_segment, lines 196-206, given the outcome of parse_youtube_url.
StartAfterParse(a, parsed) ==
    IF parsed.st = "raise" THEN parsed
    ELSE ResolveStart(a.start_time, parsed.val.start_time)

\* extract_segment, lines 196-206: the start of the window or the exception.
StartOf(a) == StartAfterParse(a, ParseYoutubeUrl(a.url))

\* summarize_transcript, lines 150-164: the dict made of the content of the
\* response.  Content that json.loads rejects becomes, stripped, the summary
\* of a dict with five empty lists.
SummaryData(response) ==
    IF response.json THEN response.data
    ELSE [summary |-> PyStr(Strip(response.content)),
          books |-> PyList(<<>>), people |-> PyList(<<>>), places |-> PyList(<<>>),
          facts |-> PyList(<<>>), topics |-> PyList(<<>>)]

\* dict.get(key, default): the default stands for an absent key only.
DictGet(d, key, default) == IF key \in DOMAIN d THEN d[key] ELSE default

\* summary_data.get("summary", "")
SummaryGet(summary_data) == DictGet(summary_data, "summary", PyStr(<<>>))

\* TranscriptSummary.__post_init__, lines 28-39, for one of the five lists.
PostInit(v) == IF v = PyNone THEN PyList(<<>>) ELSE v

\* process_video_segment, lines 206-222: the TranscriptSummary returned.
TranscriptSummaryOf(seg, summary_data) ==
    [url |-> seg.url,
     start_time |-> PyStrOfInt(seg.start_time) \o <<"s">>,
     end_time |-> PyStrOfInt(seg.end_time) \o <<"s">>,
     transcription |-> seg.transcript,
     summary |-> SummaryGet(summary_data),
     books |-> PostInit(DictGet(summary_data, "books", PyList(<<>>))),
     people |-> PostInit(DictGet(summary_data, "people", PyList(<<>>))),
     places |-> PostInit(DictGet(summary_data, "places", PyList(<<>>))),
     facts |-> PostInit(DictGet(summary_data, "facts", PyList(<<>>))),
     topics |-> PostInit(DictGet(summary_data, "topics", PyList(<<>>)))]

\* summarize_transcript as process_video_segment sees it (lines 200-222).
Summarized(seg, response) ==
    IF response.st = "raise" THEN Raise(OpenAIError)
    ELSE Ok(TranscriptSummaryOf(seg, SummaryData(response.val)))

\* s.split(sep)[1]: what stands between the first and the second sep.
SecondPiece(s, sep) ==
    BeforeFirst(SubSeq(s, Len(BeforeFirst(s, sep)) + Len(sep) + 1, Len(s)), sep)

\* save_summary_to_firestore, line 332: the video id read back from the URL.
SavedVideoId(u) ==
    IF Contains(u, S_v_eq) THEN BeforeFirst(SecondPiece(u, S_v_eq), <<"&">>)
    ELSE S_unknown

\* save_summary_to_firestore, lines 335-353: the document given to Firestore.
SummaryDocument(sm, tags, user_notes) ==
    [video_id |-> SavedVideoId(sm.url),
     start_time |-> sm.start_time,
     end_time |-> sm.end_time,
     transcription |-> sm.transcription,
     summary |-> sm.summary,
     books |-> sm.books, people |-> sm.people, places |-> sm.places,
     facts |-> sm.facts, topics |-> sm.topics,
     tags |-> tags,
     user_notes |-> user_notes]

\* The tags and the notes the drivers pass to save_summary_to_firestore
\* (app.py, lines 105-109; store_video_segment.py, lines 59-63).  The notes
\* carry the time of the request, which is not followed here.
CallerTags(c) ==
    IF c = "route" THEN <<"web-app", "knowledge-extraction">>
    ELSE <<"user-request", "knowledge-extraction", "video-rCtvAvZtJyE">>
CallerNotes(c) ==
    IF c = "route" THEN "Extracted via web app on <now>"
    ELSE "User requested segment from <start> to <end>"

\* save_summary_to_firestore and save_complete_segment: a failure of the
\* storage ends the run; the route and the scripts go on to report.
AfterStorage(ok, next) == IF ok THEN next ELSE "done"

\* /extract, lines 63-76: the route rejects a URL that names neither site, and
\* gives up when no summarizer could be made.
RouteAccepts(u, configured) ==
    /\ u # <<>>
    /\ Contains(u, S_youtube_com) \/ Contains(u, S_youtu_be)
    /\ configured

\* /extract, lines 57-76: the message of the check that rejects the request.
RejectionMessage(u, configured) ==
    IF u = <<>> THEN "Please provide a YouTube URL"
    ELSE IF ~(Contains(u, S_youtube_com) \/ Contains(u, S_youtu_be))
         THEN "Please provide a valid YouTube URL"
    ELSE "OpenAI API not configured. Please set your OPENAI_API_KEY."

\* app.py, extract_video_id, lines 21-29.
ExtractVideoId(u) ==
    IF Contains(u, S_youtube_com \o S_watch \o <<"?">> \o S_v_eq)
        THEN BeforeFirst(SecondPiece(u, S_v_eq), <<"&">>)
    ELSE IF Contains(u, S_youtu_be \o <<"/">>)
        THEN BeforeFirst(SecondPiece(u, S_youtu_be \o <<"/">>), <<"?">>)
    ELSE IF Contains(u, S_youtube_embed)
        THEN BeforeFirst(SecondPiece(u, S_embed), <<"?">>)
    ELSE <<>>

\* retrieve_video_summaries.py, get_video_id_from_url, lines 15-24: as
\* extract_video_id, but a URL of no known shape is taken for a video id.
GetVideoIdFromUrl(u) ==
    IF Contains(u, S_youtube_com \o S_watch \o <<"?">> \o S_v_eq)
        THEN BeforeFirst(SecondPiece(u, S_v_eq), <<"&">>)
    ELSE IF Contains(u, S_youtu_be \o <<"/">>)
        THEN BeforeFirst(SecondPiece(u, S_youtu_be \o <<"/">>), <<"?">>)
    ELSE IF Contains(u, S_youtube_embed)
        THEN BeforeFirst(SecondPiece(u, S_embed), <<"?">>)
    ELSE u

\* /extract, lines 137-153: the message answered for an exception.  The text
\* of the exception is searched for 'transcript', 'api' and 'video', in this
\* order: 'Failed to fetch transcript: ...' has the first, 'OpenAI API error:
\* ...' the second, 'Could not extract video ID from URL: ...' the third, and
\* the ValueError of int() none of them.
RouteErrorMessage(err) ==
    CASE err = FetchFailed ->
             "This video doesn't have available transcripts. Please try a different video."
      [] err = OpenAIError ->
             "OpenAI API error. Please check your API key and try again."
      [] err = CouldNotExtract ->
             "Could not access this video. It might be private or unavailable."
      [] OTHER -> err

\* The identifier save_summary_to_firestore returns: the uuid4 of the save.
S_uuid == <<"u", "u", "i", "d", "4">>

\* /extract, lines 150-153 and 57-76: the answer to a request that failed.
RouteFailure(message) == [success |-> FALSE, error |-> message]

\* /extract, lines 99-135: the answer to a request that was processed
\* (processed_at, the time of the answer, is left out).
RouteSuccess(sm, firestore_id) ==
    [success |-> TRUE,
     data |-> [url |-> sm.url,
               video_id |-> ExtractVideoId(sm.url),
               start_time |-> sm.start_time,
               end_time |-> sm.end_time,
               transcription |-> sm.transcription,
               summary |-> sm.summary,
               books |-> sm.books, people |-> sm.people, places |-> sm.places,
               facts |-> sm.facts, topics |-> sm.topics,
               firestore_id |-> firestore_id]]

\* RouteAnswer failing the request when the save failed.
MutRouteAnswer(c, at, sm, st, old) ==
    IF c # "route" THEN old
    ELSE IF at = "failed" THEN RouteFailure(RouteErrorMessage(sm.err))
    ELSE IF at = "done" /\ st.st = "ok" THEN RouteSuccess(sm.val, PyStr(S_uuid))
    ELSE IF at = "done" THEN RouteFailure(st.err)
    ELSE old

\* /extract, lines 91-153: what the route answers when the run has come to
\* the statement at, with the outcomes sm of process_video_segment and st of
\* save_summary_to_firestore.  An exception of process_video_segment reaches
\* the handler of line 137; one of the save is caught at line 111 and leaves
\* firestore_id None.  The scripts answer nothing.
RouteAnswer(c, at, sm, st, old) ==
    IF c # "route" THEN old
    ELSE IF at = "failed" THEN RouteFailure(RouteErrorMessage(sm.err))
    ELSE IF at = "done"
         THEN RouteSuccess(sm.val, IF st.st = "ok" THEN PyStr(S_uuid) ELSE PyNone)
    ELSE old

-----------------------------------------------------------------------------
(* Time strings under test *)

MaxWidth == 2

ComponentValues == {0, 1, 2, 30, 45, 90, 99}

\* A component is a number written in decimal, zero-padded to width w.
Components ==
    {[v |-> v, w |-> w] : v \in ComponentValues, w \in 1..MaxWidth} \
    {c \in [v : ComponentValues, w : 2..MaxWidth] : c.w <= Len(DecStr(c.v))}

RECURSIVE Zeros(_)
Zeros(k) == IF k <= 0 THEN <<>> ELSE <<"0">> \o Zeros(k - 1)

Written(c) == Zeros(c.w - Len(DecStr(c.v))) \o DecStr(c.v)

Units == {"h", "m", "s"}

UnitOrders ==
    {o \in UNION {[1..k -> Units] : k \in 1..3} :
        \A i, j \in DOMAIN o : i # j => o[i] # o[j]}

\* Strings outside the supported forms.
RawTimeStrings ==
    { <<"-", "5">>,
      <<"-", "1", ":", "3", "0">>,
      <<"1", ":", "-", "3", "0">>,
      <<"1", ":", "2", ":", "3", ":", "4">>,
      <<"1", ":", "x", "x">>,
      <<"a", ":", "b", ":", "c">>,
      <<"1", ":">>,
      <<"1", ":", "3", "0", "s">>,
      <<"1", "h", "3", "0">>,
      <<"1", "h", "2", "h">>,
      <<"x">>,
      <<"s">>,
      <<":">>,
      <<"1", ":", ":", "2">>,
      <<"1", ":", "2", ":", "x">>,
      <<"1", ":", "2", ":", "3", ":", "4", "s">>,
      <<"a", ":", "b", ":", "c", ":", "d">>,
      <<"1", ":", " ", "5">>,
      <<"1", ":", "+", "5">>,
      <<"1", ":", "1", "_", "0">>,
      <<"1", ":", "1", "_", "_", "0">>,
      <<"1", ":", "_", "5">> }

TimeForms ==
    {[kind |-> "none", comps |-> <<>>, units |-> <<>>, raw |-> <<>>]}
    \cup {[kind |-> "empty", comps |-> <<>>, units |-> <<>>, raw |-> <<>>]}
    \cup {[kind |-> "digits", comps |-> <<c>>, units |-> <<>>, raw |-> <<>>] :
             c \in Components}
    \cup {[kind |-> "colon", comps |-> cs, units |-> <<>>, raw |-> <<>>] :
             cs \in [1..2 -> Components] \cup [1..3 -> Components]}
    \cup UNION {{[kind |-> "marker", comps |-> cs, units |-> o, raw |-> <<>>] :
                    cs \in [DOMAIN o -> Components]} : o \in UnitOrders}
    \cup {[kind |-> "raw", comps |-> <<>>, units |-> <<>>, raw |-> r] :
             r \in RawTimeStrings}

NoTimeForm == [kind |-> "idle", comps |-> <<>>, units |-> <<>>, raw |-> <<>>]

RECURSIVE WrittenColon(_)
WrittenColon(cs) ==
    IF Len(cs) = 1 THEN Written(cs[1])
    ELSE Written(cs[1]) \o <<":">> \o WrittenColon(Tail(cs))

RECURSIVE WrittenMarker(_, _)
WrittenMarker(cs, us) ==
    IF cs = <<>> THEN <<>>
    ELSE Written(cs[1]) \o <<us[1]>> \o WrittenMarker(Tail(cs), Tail(us))

TimeArgument(f) ==
    CASE f.kind = "none" -> PyNone
      [] f.kind = "empty" -> PyStr(<<>>)
      [] f.kind = "digits" -> PyStr(Written(f.comps[1]))
      [] f.kind = "colon" -> PyStr(WrittenColon(f.comps))
      [] f.kind = "marker" -> PyStr(WrittenMarker(f.comps, f.units))
      [] f.kind = "raw" -> PyStr(f.raw)

-----------------------------------------------------------------------------
(* URLs under test: [scheme://]host path [?name=value&...] *)

MaxParams == 2

S_https == <<"h", "t", "t", "p", "s">>
S_id1 == <<"d", "Q", "w", "4">>
S_id2 == <<"x", "_", "Y", "-", "9">>

\* site is the kind of host the URL names: "watch" for youtube.com and
\* www.youtube.com, "short" for youtu.be and www.youtu.be, "other" for any
\* other host, "none" for a URL without scheme and authority.
UrlPrefixes ==
    { [scheme |-> S_https, host |-> S_www_youtube_com, site |-> "watch"],
      [scheme |-> S_https, host |-> S_youtube_com, site |-> "watch"],
      [scheme |-> S_https, host |-> <<"Y", "o", "u", "T", "u", "b", "e", ".", "c", "o", "m">>, site |-> "watch"],
      [scheme |-> S_https, host |-> S_youtu_be, site |-> "short"],
      [scheme |-> S_https, host |-> S_www_youtu_be, site |-> "short"],
      [scheme |-> S_https, host |-> <<"m", ".", "y", "o", "u", "t", "u", "b", "e", ".", "c", "o", "m">>, site |-> "other"],
      [scheme |-> S_https, host |-> <<"v", "i", "m", "e", "o", ".", "c", "o", "m">>, site |-> "other"],
      [scheme |-> <<>>, host |-> S_youtube_com, site |-> "none"] }

UrlPaths ==
    { <<>>, <<"/">>, S_watch, <<"/", "w", "a", "t", "c", "h", "/">>,
      <<"/">> \o S_id1,
      <<"/">> \o S_embed,
      <<"/">> \o S_embed \o S_id1 }

UrlParams ==
    { [name |-> S_v, value |-> S_id1],
      [name |-> S_v, value |-> S_id2],
      [name |-> S_v, value |-> <<>>],
      [name |-> S_t, value |-> <<"4", "2">>],
      [name |-> S_t, value |-> <<"1", "m", "3", "0", "s">>],
      [name |-> S_t, value |-> <<"1", ":", "x", "x">>],
      [name |-> S_t, value |-> <<>>],
      [name |-> <<"s", "i">>, value |-> <<"a", "b", "c">>],
      [name |-> S_start, value |-> <<"6", "0">>],
      [name |-> S_start, value |-> <<"1", "m">>] }

UrlForms ==
    [prefix : UrlPrefixes,
     path : UrlPaths,
     params : UNION {[1..k -> UrlParams] : k \in 0..MaxParams}]

RECURSIVE WrittenQuery(_)
WrittenQuery(ps) ==
    IF ps = <<>> THEN <<>>
    ELSE ps[1].name \o <<"=">> \o ps[1].value
         \o (IF Len(ps) > 1 THEN <<"&">> ELSE <<>>) \o WrittenQuery(Tail(ps))

WrittenUrl(f) ==
    (IF f.prefix.scheme # <<>> THEN f.prefix.scheme \o <<":", "/", "/">> ELSE <<>>)
    \o f.prefix.host \o f.path
    \o (IF f.params # <<>> THEN <<"?">> \o WrittenQuery(f.params) ELSE <<>>)

-----------------------------------------------------------------------------
(* Calls of extract_segment under test *)

MaxEntries == 3

\* Caption entries: a, b and c follow each other, d overlaps all three.
CaptionEntries ==
    { [start |-> 0, duration |-> 5, text |-> <<"a">>],
      [start |-> 5, duration |-> 5, text |-> <<"b">>],
      [start |-> 10, duration |-> 5, text |-> <<"c">>],
      [start |-> 4, duration |-> 8, text |-> <<"d", " ", "e">>] }

\* What fetch_transcript may return: the entries in any order, repeated or not.
Transcripts == UNION {[1..k -> CaptionEntries] : k \in 0..MaxEntries}

FetchOutcomes == {Ok(tr) : tr \in Transcripts} \cup {Raise(FetchFailed)}

ExtractUrlForms ==
    { [prefix |-> [scheme |-> S_https, host |-> S_www_youtube_com, site |-> "watch"],
       path |-> S_watch,
       params |-> <<[name |-> S_v, value |-> S_id1]>>],
      [prefix |-> [scheme |-> S_https, host |-> S_youtu_be, site |-> "short"],
       path |-> <<"/">> \o S_id1,
       params |-> <<[name |-> S_t, value |-> <<"4", "5">>]>>],
      [prefix |-> [scheme |-> S_https, host |-> <<"v", "i", "m", "e", "o", ".", "c", "o", "m">>, site |-> "other"],
       path |-> <<"/">> \o S_id1,
       params |-> <<>>] }

StartArguments ==
    {PyNone, PyInt(3), PyInt(5), PyInt(10), PyStr(<<"0", ":", "3", "0">>)}

EndArguments ==
    {PyNone, PyInt(5), PyInt(12), PyStr(<<"0", ":", "0", "0", ":", "4", "0">>)}

DurationArguments ==
    {PyNone, PyInt(0), PyInt(20), PyInt(30)}

\* The calls an extraction run is started with.  Both drivers pass the times
\* as strings.
RunUrlForms ==
    ExtractUrlForms \cup
    { [prefix |-> [scheme |-> S_https, host |-> S_www_youtube_com, site |-> "watch"],
       path |-> <<"/">> \o S_embed \o S_id1,
       params |-> <<>>],
      [prefix |-> [scheme |-> S_https, host |-> S_www_youtube_com, site |-> "watch"],
       path |-> S_watch,
       params |-> <<[name |-> S_t, value |-> <<"4", "2">>],
                    [name |-> S_v, value |-> S_id1]>>],
      [prefix |-> [scheme |-> S_https, host |-> S_www_youtube_com, site |-> "watch"],
       path |-> S_watch,
       params |-> <<[name |-> S_v, value |-> S_id1],
                    [name |-> S_t, value |-> <<"4", "2">>],
                    [name |-> <<"s", "i">>, value |-> <<"a", "b", "c">>]>>] }

RunStartArguments ==
    {PyNone, PyStr(<<"0", ":", "3", "0">>), PyStr(<<"1", ":", "x", "x">>)}

RunEndArguments ==
    {PyNone, PyStr(<<"0", ":", "0", "0", ":", "4", "0">>), PyStr(<<"1", ":", "x", "x">>)}

RunDurationArguments == {PyNone, PyInt(20)}

Callers == {"route", "script"}

\* What transcript.fetch() may return in a run.
RunTranscripts == {tr \in Transcripts : Len(tr) <= 1}

\* What the completion request may give: a JSON object with all six keys, one
\* that omits keys, one with lists set to null, one with the summary set to
\* null, content that is no JSON, or an error.
LlmResponses ==
    { [json |-> TRUE, content |-> <<>>,
       data |-> [summary |-> PyStr(<<"s", "u", "m">>), books |-> PyList(<<"b">>),
                 people |-> PyList(<<>>), places |-> PyList(<<>>),
                 facts |-> PyList(<<>>), topics |-> PyList(<<"t">>)]],
      [json |-> TRUE, content |-> <<>>, data |-> [topics |-> PyList(<<>>)]],
      [json |-> TRUE, content |-> <<>>,
       data |-> [summary |-> PyStr(<<"s", "u", "m">>), books |-> PyNone, topics |-> PyNone]],
      [json |-> TRUE, content |-> <<>>, data |-> [summary |-> PyNone]],
      [json |-> FALSE, content |-> <<" ", "n", "o">>, data |-> <<>>] }

LlmOutcomes == {Ok(r) : r \in LlmResponses} \cup {Raise(OpenAIError)}

-----------------------------------------------------------------------------
(* Idle values of the variables an operation does not use *)

NoUrlForm == [kind |-> "idle"]
NoArgs == [kind |-> "idle"]

TimeIdle == time_form = NoTimeForm /\ time_str = PyNone /\ time_res = Pending
UrlIdle == url_form = NoUrlForm /\ url = <<>> /\ url_res = Pending
ExtractIdle == args = NoArgs /\ transcript = Pending /\ segment = Pending /\ repeat = Pending
RunIdle ==
    /\ caller = "none" /\ pc = "idle" /\ trace = <<>>
    /\ summary = Pending /\ stored = Pending /\ route_result = Pending
StoreIdle ==
    /\ segments = <<>> /\ videos = <<>> /\ issued = {}
    /\ call = Pending /\ saved = <<>> /\ touched = {} /\ raised = FALSE
ConcIdle == extractor = <<>> /\ captions = <<>> /\ threads = <<>> /\ frames = <<>>

-----------------------------------------------------------------------------
(* SpecTime: _parse_time_param applied to one time string *)

InitTime ==
    /\ time_form \in TimeForms
    /\ time_str = TimeArgument(time_form)
    /\ time_res = Pending
    /\ UrlIdle
    /\ ExtractIdle
    /\ RunIdle
    /\ StoreIdle
    /\ ConcIdle

ParseTimeCall ==
    /\ time_form # NoTimeForm
    /\ time_res = Pending
    /\ time_res' = ParseTimeParam(time_str)
    /\ UNCHANGED <<store_vars, conc_vars, time_form, time_str, url_vars, extract_vars, run_vars>>

NextTime == ParseTimeCall

SpecTime == InitTime /\ [][NextTime]_vars

-----------------------------------------------------------------------------
(* SpecUrl: parse_youtube_url applied to one URL *)

InitUrl ==
    /\ url_form \in UrlForms
    /\ url = WrittenUrl(url_form)
    /\ url_res = Pending
    /\ TimeIdle
    /\ ExtractIdle
    /\ RunIdle
    /\ StoreIdle
    /\ ConcIdle

ParseUrlCall ==
    /\ url_form # NoUrlForm
    /\ url_res = Pending
    /\ url_res' = ParseYoutubeUrl(url)
    /\ UNCHANGED <<store_vars, conc_vars, time_vars, url_form, url, extract_vars, run_vars>>

NextUrl == ParseUrlCall

SpecUrl == InitUrl /\ [][NextUrl]_vars

-----------------------------------------------------------------------------
(* SpecExtract: a call of extract_segment, where fetch_transcript returns any *)
(* transcript or fails, and then a second call with the same arguments, to   *)
(* which fetch_transcript gives the transcript as the first call left it.    *)

InitExtract ==
    /\ \E f \in ExtractUrlForms, st \in StartArguments,
          en \in EndArguments, d \in DurationArguments :
          args = [form |-> f, url |-> WrittenUrl(f), duration |-> d,
                  start_time |-> st, end_time |-> en]
    /\ transcript = Pending
    /\ segment = Pending
    /\ repeat = Pending
    /\ TimeIdle
    /\ UrlIdle
    /\ RunIdle
    /\ StoreIdle
    /\ ConcIdle

ExtractSegmentCall ==
    /\ args # NoArgs
    /\ segment = Pending
    /\ \E fetch \in FetchOutcomes :
          \E r \in {ExtractSegment(args, fetch)} :
              transcript' = r.fetched /\ segment' = r.result
    /\ UNCHANGED <<store_vars, conc_vars, time_vars, url_vars, args, repeat, run_vars>>

\* The same call once more.  A call that never reached fetch_transcript left
\* no transcript; otherwise fetch_transcript gives again what it gave.
ExtractSegmentAgain ==
    /\ args # NoArgs
    /\ segment # Pending
    /\ repeat = Pending
    /\ \E fetch \in (IF transcript = Pending THEN FetchOutcomes ELSE {transcript}) :
          \E r \in {ExtractSegment(args, fetch)} :
              transcript' = r.fetched /\ repeat' = r.result
    /\ UNCHANGED <<store_vars, conc_vars, time_vars, url_vars, args, segment, run_vars>>

NextExtract == ExtractSegmentCall \/ ExtractSegmentAgain

SpecExtract == InitExtract /\ [][NextExtract]_vars

-----------------------------------------------------------------------------
(* SpecRun: one extraction run, from the call of the driver to the storage   *)
(* of the summary.                                                           *)

InitRun ==
    /\ \E f \in RunUrlForms, st \in RunStartArguments,
          en \in RunEndArguments, d \in RunDurationArguments :
          args = [form |-> f, url |-> WrittenUrl(f), duration |-> d,
                  start_time |-> st, end_time |-> en]
    /\ caller \in Callers
    /\ pc = IF caller = "route" THEN "validate" ELSE "parse_url"
    /\ trace = <<>>
    /\ transcript = Pending
    /\ segment = Pending
    /\ repeat = Pending
    /\ summary = Pending
    /\ stored = Pending
    /\ route_result = Pending
    /\ TimeIdle
    /\ UrlIdle
    /\ StoreIdle
    /\ ConcIdle

\* /extract, lines 56-76: the checks before the video is processed.
RouteValidate ==
    /\ pc = "validate"
    /\ \E configured \in BOOLEAN :
          /\ pc' = IF RouteAccepts(args.url, configured) THEN "parse_url" ELSE "rejected"
          /\ route_result' = IF RouteAccepts(args.url, configured) THEN route_result
                              ELSE RouteFailure(RejectionMessage(args.url, configured))
    /\ UNCHANGED <<store_vars, conc_vars, time_vars, url_vars, extract_vars, caller, trace, summary, stored>>

\* extract_segment, line 196.
ParseUrlStep ==
    /\ pc = "parse_url"
    /\ \E parsed \in {ParseYoutubeUrl(args.url)} :
          /\ trace' = Append(trace, Event("parse_url", <<>>, parsed.st = "ok"))
          /\ pc' = AfterStage(parsed, "resolve_start")
          /\ segment' = Propagated(parsed, segment)
          /\ summary' = Propagated(parsed, summary)
          /\ route_result' = RouteAnswer(caller, pc', summary', stored, route_result)
    /\ UNCHANGED <<store_vars, conc_vars, time_vars, url_vars, args, transcript, repeat, caller, stored>>

\* extract_segment, lines 198-206.
ResolveStartStep ==
    /\ pc = "resolve_start"
    /\ \E start \in {StartOf(args)} :
          /\ trace' = Append(trace, Event("resolve_start", <<>>, start.st = "ok"))
          /\ pc' = AfterStage(start, "list")
          /\ segment' = Propagated(start, segment)
          /\ summary' = Propagated(start, summary)
          /\ route_result' = RouteAnswer(caller, pc', summary', stored, route_result)
    /\ UNCHANGED <<store_vars, conc_vars, time_vars, url_vars, args, transcript, repeat, caller, stored>>

\* A request of fetch_transcript that gives no content: the request is
\* recorded, control goes where FetchFlow says, and a failure that is not
\* caught leaves extract_segment and process_video_segment as one exception.
TranscriptRequest(op, ok) ==
    /\ trace' = Append(trace, Event(op, LookupLanguages(op, PyNone), ok))
    /\ pc' = FetchFlow(op, ok)
    /\ \E failed \in {FetchFlow(op, ok) = "failed"} :
          /\ transcript' = IF failed THEN Raise(FetchFailed) ELSE transcript
          /\ segment' = IF failed THEN Raise(FetchFailed) ELSE segment
          /\ summary' = IF failed THEN Raise(FetchFailed) ELSE summary
          /\ route_result' = RouteAnswer(caller, pc', summary', stored, route_result)
    /\ UNCHANGED <<store_vars, conc_vars, time_vars, url_vars, args, repeat, caller, stored>>

\* fetch_transcript, line 146.
ListTranscripts ==
    /\ pc = "list"
    /\ \E ok \in BOOLEAN : TranscriptRequest("list", ok)

\* fetch_transcript, lines 149-151.
FindManuallyCreated ==
    /\ pc = "find_manually_created_transcript"
    /\ \E ok \in BOOLEAN : TranscriptRequest("find_manually_created_transcript", ok)

\* fetch_transcript, lines 152-154.
FindGenerated ==
    /\ pc = "find_generated_transcript"
    /\ \E ok \in BOOLEAN : TranscriptRequest("find_generated_transcript", ok)

\* fetch_transcript, lines 155-157.
FindAnyTranscript ==
    /\ pc = "find_transcript"
    /\ \E ok \in BOOLEAN : TranscriptRequest("find_transcript", ok)

\* fetch_transcript, line 160: the content of the transcript found.
FetchContent ==
    /\ pc = "fetch"
    /\ \E fetched \in {Ok(tr) : tr \in RunTranscripts} \cup {Raise(FetchFailed)} :
          /\ trace' = Append(trace, Event("fetch", <<>>, fetched.st = "ok"))
          /\ pc' = FetchFlow("fetch", fetched.st = "ok")
          /\ transcript' = fetched
          /\ segment' = Propagated(fetched, segment)
          /\ summary' = Propagated(fetched, summary)
          /\ route_result' = RouteAnswer(caller, pc', summary', stored, route_result)
    /\ UNCHANGED <<store_vars, conc_vars, time_vars, url_vars, args, repeat, caller, stored>>

\* extract_segment, lines 211-279: the end of the window and the selection.
SelectStep ==
    /\ pc = "select"
    /\ \E r \in {ExtractSegment(args, transcript)} :
          /\ trace' = Append(trace, Event("select", <<>>, r.result.st = "ok"))
          /\ pc' = AfterStage(r.result, "summarize")
          /\ segment' = r.result
          /\ summary' = Propagated(r.result, summary)
          /\ route_result' = RouteAnswer(caller, pc', summary', stored, route_result)
    /\ UNCHANGED <<store_vars, conc_vars, time_vars, url_vars, args, transcript, repeat, caller, stored>>

\* process_video_segment, lines 200-222: the completion request and the
\* TranscriptSummary made of its answer.
SummarizeStep ==
    /\ pc = "summarize"
    /\ \E response \in LlmOutcomes :
          /\ trace' = Append(trace, Event("llm", <<>>, response.st = "ok"))
          /\ pc' = AfterStage(response, "save")
          /\ summary' = Summarized(segment.val, response)
          /\ route_result' = RouteAnswer(caller, pc', summary', stored, route_result)
    /\ UNCHANGED <<store_vars, conc_vars, time_vars, url_vars, extract_vars, caller, stored>>

\* A step of the storage: recorded, and its failure ends the run with the
\* exception of save_summary_to_firestore.
StorageStep(op, next) ==
    /\ \E ok \in BOOLEAN :
          /\ trace' = Append(trace, Event(op, <<>>, ok))
          /\ pc' = AfterStorage(ok, next)
          /\ stored' = IF ~ok THEN Raise(SaveFailed)
                        ELSE IF next = "done"
                          THEN Ok(SummaryDocument(summary.val, CallerTags(caller),
                                                  CallerNotes(caller)))
                        ELSE stored
          /\ route_result' = RouteAnswer(caller, pc', summary, stored', route_result)
    /\ UNCHANGED <<store_vars, conc_vars, time_vars, url_vars, extract_vars, caller, summary>>

\* save_summary_to_firestore, lines 326-329: the storage client.
GetStorageClient == pc = "save" /\ StorageStep("save", "segment_write")

\* save_complete_segment, lines 351-352: the segment document.
WriteSegment == pc = "segment_write" /\ StorageStep("segment_write", "video_write")

\* save_complete_segment, lines 361-362: the video document.
WriteVideo == pc = "video_write" /\ StorageStep("video_write", "done")

NextRun ==
    \/ RouteValidate
    \/ ParseUrlStep
    \/ ResolveStartStep
    \/ ListTranscripts
    \/ FindManuallyCreated
    \/ FindGenerated
    \/ FindAnyTranscript
    \/ FetchContent
    \/ SelectStep
    \/ SummarizeStep
    \/ GetStorageClient
    \/ WriteSegment
    \/ WriteVideo

SpecRun == InitRun /\ [][NextRun]_vars

-----------------------------------------------------------------------------
(* FirebaseStorage (src/storage/firebase_storage.py) over the collections    *)
(* 'segments' and 'videos'.  A request to Firestore is applied as a whole or *)
(* raises and changes nothing; the methods are called one after another.     *)

MaxIds == 2

\* The values str(uuid.uuid4()) gives are named by the order in which they
\* are given out, 1..MaxIds: uuid4 gives no value twice, and nothing depends
\* on the value.
\* str(uuid.uuid4()), lines 66, 295 and 340: the next values not yet given out.
Uuid4(given_out, n) ==
    IF Cardinality(given_out) + n <= MaxIds
    THEN {[i \in 1..n |-> Cardinality(given_out) + i]}
    ELSE {}

\* An identifier given out before the behaviour began.
OldId == MaxIds + 1

\* firestore.SERVER_TIMESTAMP, as the server stores it.
ServerTimestamp == "SERVER_TIMESTAMP"

StoreError == "Exception: Firestore request failed"

\* {**old, **new}: the fields of both dicts, those of new winning.
Merge(old, new) ==
    [k \in DOMAIN old \cup DOMAIN new |-> IF k \in DOMAIN new THEN new[k] ELSE old[k]]

\* collection.document(key).set(doc)
Put(coll, key, doc) ==
    [k \in DOMAIN coll \cup {key} |-> IF k = key THEN doc ELSE coll[k]]

\* collection.document(key).delete(): deleting what is not there is no error.
Remove(coll, key) == [k \in DOMAIN coll \ {key} |-> coll[k]]

\* CompleteData letting the fields of segment_data win.
MutCompleteData(segment_data, segment_id) ==
    Merge([segment_id |-> segment_id, created_at |-> ServerTimestamp,
           updated_at |-> ServerTimestamp], segment_data)

\* save_complete_segment, lines 343-348: complete_data.
CompleteData(segment_data, segment_id) ==
    Merge(segment_data,
          [segment_id |-> segment_id, created_at |-> ServerTimestamp,
           updated_at |-> ServerTimestamp])

\* save_segment, lines 69-84: segment_data.
SegmentData(seg, segment_id, tags, user_notes) ==
    [segment_id |-> segment_id,
     video_id |-> seg.video_id,
     url |-> seg.url,
     start_time |-> seg.start_time,
     end_time |-> seg.end_time,
     duration |-> seg.end_time - seg.start_time,
     transcript |-> seg.transcript,
     raw_segments |-> seg.raw_segments,
     tags |-> IF tags = PyNone THEN <<>> ELSE tags.xs,
     user_notes |-> user_notes,
     created_at |-> ServerTimestamp,
     updated_at |-> ServerTimestamp,
     character_count |-> Len(seg.transcript),
     segment_count |-> Len(seg.raw_segments)]

\* The segment_count a video document holds; firestore.Increment counts a
\* field that is not there from 0.
SegmentCount(vs, key) ==
    IF key \in DOMAIN vs /\ "segment_count" \in DOMAIN vs[key]
    THEN vs[key].segment_count ELSE 0

\* video_ref.set(video_data, merge=True), lines 355-362 and 616-624: the
\* fields of video_data are written over those the document has, and
\* segment_count is incremented by 1.
VideoSet(vs, key, video_id, stamp) ==
    Put(vs, key,
        Merge(Merge(IF key \in DOMAIN vs THEN vs[key] ELSE <<>>,
                    [video_id |-> video_id, segment_count |-> SegmentCount(vs, key) + 1]),
              IF stamp = "last_segment_at" THEN [last_segment_at |-> ServerTimestamp]
              ELSE [last_extracted_at |-> ServerTimestamp]))

\* doc.to_dict() with data['id'] = doc.id, lines 382-387; None for a document
\* that does not exist and for a request that failed (lines 389-391).
Retrieved(coll, key, ok) ==
    IF ok /\ key \in DOMAIN coll THEN Merge(coll[key], [id |-> key]) ELSE PyNone

\* doc_ref.update(updates), lines 507-510: the document must exist.
UpdateApplies(coll, key, ok) == ok /\ key \in DOMAIN coll

-----------------------------------------------------------------------------
(* Calls of FirebaseStorage under test *)

\* The dicts save_complete_segment is given: the document of a summary, one
\* of another video read back from the store (with the identifier and the
\* date it had), and one without a video_id.
SummaryOfVideo(video_id, summary_text) ==
    [video_id |-> video_id, start_time |-> "0s", end_time |-> "60s",
     transcription |-> "a b", summary |-> summary_text,
     books |-> <<"b">>, people |-> <<>>, places |-> <<>>, facts |-> <<>>,
     topics |-> <<"t">>, tags |-> <<"test">>, user_notes |-> "n"]

CompleteSegments ==
    { SummaryOfVideo(S_id1, "sum"),
      Merge(SummaryOfVideo(S_id2, "other"),
            [segment_id |-> OldId, created_at |-> "2025-01-25", id |-> OldId]),
      [start_time |-> "0s", end_time |-> "60s", summary |-> "sum"] }

\* The VideoSegments save_segment and batch_save_segments are given.
StoredSegments ==
    { [video_id |-> S_id1, url |-> FinalUrl(<<"u">>, 0), start_time |-> 0, end_time |-> 5,
       transcript |-> <<"a">>,
       raw_segments |-> <<[start |-> 0, duration |-> 5, text |-> <<"a">>]>>] }

Batches == {<<seg>> : seg \in StoredSegments} \cup {<<seg, seg>> : seg \in StoredSegments}

TagArguments == {PyNone, PyList(<<"test">>)}

Updates == {[user_notes |-> "edited"]}

\* Where a save may fail: at the segment document, at the video document,
\* or nowhere.
FailurePoints == {"segment", "video", "none"}

-----------------------------------------------------------------------------
(* SpecStore: calls of the methods of one FirebaseStorage, one after another *)

InitStore ==
    /\ segments = <<>>
    /\ videos = <<>>
    /\ issued = {}
    /\ call = Pending
    /\ saved = <<>>
    /\ touched = {}
    /\ raised = FALSE
    /\ TimeIdle
    /\ UrlIdle
    /\ ExtractIdle
    /\ RunIdle
    /\ ConcIdle

\* save_segment, lines 64-98.  A failure of _update_video_info is caught
\* there (lines 626-627) and the identifier is returned all the same.
SaveSegment ==
    /\ \E seg \in StoredSegments, tags \in TagArguments,
          segment_id \in {ids[1] : ids \in Uuid4(issued, 1)}, fail \in FailurePoints :
          /\ issued' = issued \cup {segment_id}
          /\ segments' = IF fail = "segment" THEN segments
                         ELSE Put(segments, segment_id,
                                  SegmentData(seg, segment_id, tags, "notes"))
          /\ videos' = IF fail = "none"
                       THEN VideoSet(videos, seg.video_id, seg.video_id, "last_extracted_at")
                       ELSE videos
          /\ call' = [op |-> "save_segment", arg |-> seg, reached |-> fail # "segment",
                      result |-> IF fail = "segment" THEN Raise(StoreError)
                                 ELSE Ok(segment_id)]
          /\ raised' = (raised \/ fail = "segment")
    /\ UNCHANGED <<saved, touched>>
    /\ UNCHANGED <<time_vars, url_vars, extract_vars, run_vars, conc_vars>>

\* save_complete_segment, lines 338-369: the segment document, then the
\* video document; an exception of either is raised again.
SaveCompleteSegment ==
    /\ \E segment_data \in CompleteSegments,
          segment_id \in {ids[1] : ids \in Uuid4(issued, 1)}, fail \in FailurePoints :
          /\ issued' = issued \cup {segment_id}
          /\ segments' = IF fail = "segment" THEN segments
                         ELSE Put(segments, segment_id,
                                  CompleteData(segment_data, segment_id))
          /\ videos' = IF fail = "none"
                       THEN VideoSet(videos, DictGet(segment_data, "video_id", S_unknown),
                                     DictGet(segment_data, "video_id", PyNone),
                                     "last_segment_at")
                       ELSE videos
          /\ call' = [op |-> "save_complete_segment", arg |-> segment_data,
                      reached |-> fail # "segment",
                      result |-> IF fail = "none" THEN Ok(segment_id)
                                 ELSE Raise(StoreError)]
          /\ saved' = IF fail = "none" THEN Put(saved, segment_id, segment_data) ELSE saved
          /\ raised' = (raised \/ fail # "none")
    /\ UNCHANGED touched
    /\ UNCHANGED <<time_vars, url_vars, extract_vars, run_vars, conc_vars>>

\* The documents a committed batch writes.
RECURSIVE BatchPut(_, _, _, _)
BatchPut(coll, segs, ids, tags) ==
    IF segs = <<>> THEN coll
    ELSE BatchPut(Put(coll, ids[1], SegmentData(segs[1], ids[1], tags, "")),
                  Tail(segs), Tail(ids), tags)

\* batch_save_segments, lines 290-326: one identifier per segment, all
\* documents in one commit; no video document is written.
BatchSaveSegments ==
    /\ \E segs \in Batches, tags \in TagArguments, ok \in BOOLEAN :
          \E ids \in Uuid4(issued, Len(segs)) :
              /\ issued' = issued \cup {ids[i] : i \in 1..Len(segs)}
              /\ segments' = IF ok THEN BatchPut(segments, segs, ids, tags) ELSE segments
              /\ call' = [op |-> "batch_save_segments", arg |-> segs, reached |-> ok,
                          result |-> IF ok THEN Ok(ids) ELSE Raise(StoreError)]
              /\ raised' = (raised \/ ~ok)
    /\ UNCHANGED <<videos, saved, touched>>
    /\ UNCHANGED <<time_vars, url_vars, extract_vars, run_vars, conc_vars>>

\* delete_segment and delete_complete_segment: the document is deleted and
\* True returned, or the request fails and False is returned.
Delete(op) ==
    /\ \E segment_id \in issued, ok \in BOOLEAN :
          /\ segments' = IF ok THEN Remove(segments, segment_id) ELSE segments
          /\ call' = [op |-> op, arg |-> segment_id, reached |-> ok, result |-> Ok(ok)]
          /\ touched' = IF ok THEN touched \cup {segment_id} ELSE touched
    /\ UNCHANGED <<videos, issued, saved, raised>>
    /\ UNCHANGED <<time_vars, url_vars, extract_vars, run_vars, conc_vars>>

\* delete_segment, lines 234-241.
DeleteSegment == call # Pending /\ Delete("delete_segment")

\* delete_complete_segment, lines 529-536.
DeleteCompleteSegment == call # Pending /\ Delete("delete_complete_segment")

\* update_complete_segment, lines 506-517: the fields of updates and the
\* date of the update are written into the document; False when the request
\* fails or the document does not exist.
UpdateCompleteSegment ==
    /\ call # Pending
    /\ \E segment_id \in issued, updates \in Updates, ok \in BOOLEAN :
          \E applies \in {UpdateApplies(segments, segment_id, ok)} :
              /\ segments' = IF applies
                             THEN Put(segments, segment_id,
                                      Merge(segments[segment_id],
                                            Merge(updates, [updated_at |-> ServerTimestamp])))
                             ELSE segments
              /\ call' = [op |-> "update_complete_segment", arg |-> segment_id,
                          reached |-> ok, result |-> Ok(applies)]
              /\ touched' = IF applies THEN touched \cup {segment_id} ELSE touched
    /\ UNCHANGED <<videos, issued, saved, raised>>
    /\ UNCHANGED <<time_vars, url_vars, extract_vars, run_vars, conc_vars>>

\* get_complete_segment, lines 381-391.
GetCompleteSegment ==
    /\ call # Pending
    /\ \E segment_id \in issued, ok \in BOOLEAN :
          call' = [op |-> "get_complete_segment", arg |-> segment_id, reached |-> ok,
                   result |-> Ok(Retrieved(segments, segment_id, ok))]
    /\ UNCHANGED <<segments, videos, issued, saved, touched, raised>>
    /\ UNCHANGED <<time_vars, url_vars, extract_vars, run_vars, conc_vars>>

NextStore ==
    \/ SaveSegment
    \/ SaveCompleteSegment
    \/ BatchSaveSegments
    \/ DeleteSegment
    \/ DeleteCompleteSegment
    \/ UpdateCompleteSegment
    \/ GetCompleteSegment

SpecStore == InitStore /\ [][NextStore]_vars

-----------------------------------------------------------------------------
(* SpecStamp: _seconds_to_timestamp applied to a number of seconds, and      *)
(* _parse_time_param applied to what it wrote.                               *)

\* f"{k:02d}": at least two digits, zeros in front.
TwoDigits(k) == IF k < 10 THEN <<"0">> \o DecStr(k) ELSE DecStr(k)

\* SecondsToTimestamp taking all the minutes, those of the full hours too.
MutSecondsToTimestamp(seconds) ==
    IF seconds \div 3600 > 0
    THEN TwoDigits(seconds \div 3600) \o <<":">> \o TwoDigits(seconds \div 60)
         \o <<":">> \o TwoDigits(seconds % 60)
    ELSE TwoDigits(seconds \div 60) \o <<":">> \o TwoDigits(seconds % 60)

\* _seconds_to_timestamp, lines 316-325, for a whole number of seconds.
SecondsToTimestamp(seconds) ==
    IF seconds \div 3600 > 0
    THEN TwoDigits(seconds \div 3600) \o <<":">> \o TwoDigits((seconds % 3600) \div 60)
         \o <<":">> \o TwoDigits(seconds % 60)
    ELSE TwoDigits((seconds % 3600) \div 60) \o <<":">> \o TwoDigits(seconds % 60)

MaxSeconds == 3725

\* The seconds under test: all up to an hour and some minutes, and the
\* seconds around two, ten, twenty-four and a hundred hours.
StampSeconds ==
    0..MaxSeconds \cup
    {7199, 7200, 35999, 36000, 86399, 86400, 359999, 360000, 360000 + MaxSeconds}

SecondsForm(n) == [kind |-> "seconds", seconds |-> n]

InitStamp ==
    /\ time_form \in {SecondsForm(n) : n \in StampSeconds}
    /\ time_str = PyNone
    /\ time_res = Pending
    /\ UrlIdle
    /\ ExtractIdle
    /\ RunIdle
    /\ StoreIdle
    /\ ConcIdle

\* _seconds_to_timestamp, lines 316-325.
TimestampCall ==
    /\ time_form.kind = "seconds"
    /\ time_str = PyNone
    /\ time_str' = PyStr(SecondsToTimestamp(time_form.seconds))
    /\ UNCHANGED <<time_form, time_res, url_vars, extract_vars, run_vars, store_vars, conc_vars>>

\* _parse_time_param, lines 82-140, given the timestamp.
ParseTimestampCall ==
    /\ time_form.kind = "seconds"
    /\ time_str # PyNone
    /\ time_res = Pending
    /\ time_res' = ParseTimeParam(time_str)
    /\ UNCHANGED <<time_form, time_str, url_vars, extract_vars, run_vars, store_vars, conc_vars>>

NextStamp == TimestampCall \/ ParseTimestampCall

SpecStamp == InitStamp /\ [][NextStamp]_vars

-----------------------------------------------------------------------------
(* SpecConc: concurrent callers of one YouTubeExtractor.  Each caller makes  *)
(* calls of parse_youtube_url, _parse_time_param and the selection loop of   *)
(* extract_segment, one statement at a time, in any interleaving.            *)

MaxThreads == 2

Threads == 1..MaxThreads

\* One frame for all the calls: parameters and locals are shared.
MutFrame(t) == 1

\* A call's parameters and locals live in the frame of that call.
Frame(t) == t

\* Lines 29-30: the fields __init__ sets.
ExtractorFields == [formatter |-> "TextFormatter", api |-> "YouTubeTranscriptApi"]

ConcUrls ==
    { <<"h", "t", "t", "p", "s", ":", "/", "/", "y", "o", "u", "t", "u", ".", "b", "e",
        "/", "d", "Q", "w", "4", "?", "t", "=", "9", "0">>,
      <<"h", "t", "t", "p", "s", ":", "/", "/", "w", "w", "w", ".", "y", "o", "u", "t", "u",
        "b", "e", ".", "c", "o", "m", "/", "w", "a", "t", "c", "h", "?", "v", "=", "a", "b",
        "c", "&", "t", "=", "1", "m", "5", "s">>,
      <<"h", "t", "t", "p", "s", ":", "/", "/", "e", "x", "a", "m", "p", "l", "e", ".", "c",
        "o", "m", "/", "x">> }

ConcTimes ==
    { PyStr(<<"9", "0">>), PyStr(<<"1", ":", "3", "0">>), PyStr(<<"1", "h", "2", "m">>),
      PyStr(<<"x">>) }

\* Windows of selection: start_seconds and end_seconds.
ConcWindows ==
    { [start_seconds |-> 0, end_seconds |-> 4],
      [start_seconds |-> 5, end_seconds |-> 9],
      [start_seconds |-> 16, end_seconds |-> 20] }

\* The caption lists the callers are given.
ConcCaptions ==
    {tr \in Transcripts :
        /\ Len(tr) = MaxEntries
        /\ \A i, j \in DOMAIN tr : i < j => tr[i].start < tr[j].start}

NoCall == [op |-> "none", arg |-> PyNone, given |-> <<>>, pc |-> "idle", result |-> Pending]

NoFrame ==
    [url |-> <<>>, parsed |-> <<>>, time_str |-> PyNone,
     start_seconds |-> 0, end_seconds |-> 0, i |-> 0,
     relevant_segments |-> <<>>, combined_text |-> <<>>]

Enter(t, op, arg) ==
    [threads EXCEPT ![t] = [op |-> op, arg |-> arg, given |-> captions,
                            pc |-> "entered", result |-> Pending]]

At(t, op, at) == threads[t].op = op /\ threads[t].pc = at

Return(t, res) == [threads EXCEPT ![t].pc = "returned", ![t].result = res]

other_vars == <<time_vars, url_vars, extract_vars, run_vars, store_vars>>

\* Lines 28-31.
InitConc ==
    /\ extractor = ExtractorFields
    /\ captions \in ConcCaptions
    /\ threads = [t \in Threads |-> NoCall]
    /\ frames = [f \in {Frame(t) : t \in Threads} |-> NoFrame]
    /\ TimeIdle
    /\ UrlIdle
    /\ ExtractIdle
    /\ RunIdle
    /\ StoreIdle

\* Line 32: parse_youtube_url(self, url) is entered.
ParseUrlEnter(t) ==
    /\ threads[t].pc = "idle"
    /\ \E u \in ConcUrls :
          /\ threads' = Enter(t, "parse_youtube_url", u)
          /\ frames' = [frames EXCEPT ![Frame(t)] = [NoFrame EXCEPT !.url = u]]
    /\ UNCHANGED <<extractor, captions, other_vars>>

\* Line 43: parsed = urlparse(url)
ParseUrlSplit(t) ==
    /\ At(t, "parse_youtube_url", "entered")
    /\ frames' = [frames EXCEPT ![Frame(t)].parsed = UrlSplit(frames[Frame(t)].url)]
    /\ threads' = [threads EXCEPT ![t].pc = "parsed"]
    /\ UNCHANGED <<extractor, captions, other_vars>>

\* Lines 44-80: the rest of parse_youtube_url.
ParseUrlReturn(t) ==
    /\ At(t, "parse_youtube_url", "parsed")
    /\ threads' = Return(t, ParseUrlParts(frames[Frame(t)].url, frames[Frame(t)].parsed))
    /\ UNCHANGED <<extractor, captions, frames, other_vars>>

\* Line 82: _parse_time_param(self, time_str) is entered.
ParseTimeEnter(t) ==
    /\ threads[t].pc = "idle"
    /\ \E ts \in ConcTimes :
          /\ threads' = Enter(t, "_parse_time_param", ts)
          /\ frames' = [frames EXCEPT ![Frame(t)] = [NoFrame EXCEPT !.time_str = ts]]
    /\ UNCHANGED <<extractor, captions, other_vars>>

\* Lines 96-140: the body of _parse_time_param.
ParseTimeReturn(t) ==
    /\ At(t, "_parse_time_param", "entered")
    /\ threads' = Return(t, ParseTimeParam(frames[Frame(t)].time_str))
    /\ UNCHANGED <<extractor, captions, frames, other_vars>>

\* Lines 233-234: the selection starts with two new lists.
SelectEnter(t) ==
    /\ threads[t].pc = "idle"
    /\ \E w \in ConcWindows :
          /\ threads' = Enter(t, "select", w)
          /\ frames' = [frames EXCEPT ![Frame(t)] =
                           [NoFrame EXCEPT !.start_seconds = w.start_seconds,
                                           !.end_seconds = w.end_seconds,
                                           !.i = 1]]
    /\ UNCHANGED <<extractor, captions, other_vars>>

\* Lines 236-259: one turn of the loop, reading the next entry of the list.
SelectTurn(t) ==
    /\ At(t, "select", "entered")
    /\ frames[Frame(t)].i \in DOMAIN captions
    /\ frames' =
          [frames EXCEPT ![Frame(t)] =
              IF Overlaps(captions[@.i], @.start_seconds, @.end_seconds)
              THEN [@ EXCEPT !.relevant_segments = Append(@, captions[frames[Frame(t)].i]),
                             !.combined_text = Append(@, captions[frames[Frame(t)].i].text),
                             !.i = @ + 1]
              ELSE [@ EXCEPT !.i = @ + 1]]
    /\ UNCHANGED <<extractor, captions, threads, other_vars>>

\* Lines 261-279: the loop is over, the text is joined and returned with
\* the entries selected.
SelectReturn(t) ==
    /\ At(t, "select", "entered")
    /\ frames[Frame(t)].i \notin DOMAIN captions
    /\ threads' = Return(t, Ok([transcript |-> JoinSpace(frames[Frame(t)].combined_text),
                                raw_segments |-> frames[Frame(t)].relevant_segments]))
    /\ UNCHANGED <<extractor, captions, frames, other_vars>>

\* The caller takes the result and is free for its next call.
NextCall(t) ==
    /\ threads[t].pc = "returned"
    /\ threads' = [threads EXCEPT ![t] = NoCall]
    /\ UNCHANGED <<extractor, captions, frames, other_vars>>

NextConc ==
    \/ \E t \in Threads : ParseUrlEnter(t)
    \/ \E t \in Threads : ParseUrlSplit(t)
    \/ \E t \in Threads : ParseUrlReturn(t)
    \/ \E t \in Threads : ParseTimeEnter(t)
    \/ \E t \in Threads : ParseTimeReturn(t)
    \/ \E t \in Threads : SelectEnter(t)
    \/ \E t \in Threads : SelectTurn(t)
    \/ \E t \in Threads : SelectReturn(t)
    \/ \E t \in Threads : NextCall(t)

SpecConc == InitConc /\ [][NextConc]_vars

-----------------------------------------------------------------------------
(* Claims about _parse_time_param (SpecTime) *)

UnitWeight(u) == IF u = "h" THEN 3600 ELSE IF u = "m" THEN 60 ELSE 1

RECURSIVE SumSeq(_)
SumSeq(q) == IF q = <<>> THEN 0 ELSE q[1] + SumSeq(Tail(q))

\* The number of seconds a supported form denotes, from the numbers it was
\* written from.
FormSeconds(f) ==
    CASE f.kind \in {"none", "empty"} -> 0
      [] f.kind = "digits" -> f.comps[1].v
      [] f.kind = "colon" /\ Len(f.comps) = 2 -> 60 * f.comps[1].v + f.comps[2].v
      [] f.kind = "colon" /\ Len(f.comps) = 3 ->
            3600 * f.comps[1].v + 60 * f.comps[2].v + f.comps[3].v
      [] f.kind = "marker" ->
            SumSeq([i \in DOMAIN f.comps |-> UnitWeight(f.units[i]) * f.comps[i].v])

SupportedForm(f) == f.kind \in {"none", "empty", "digits", "colon", "marker"}

\* C1: on every supported form (digits, M:S, H:M:S, h/m/s markers, empty, None)
\* _parse_time_param returns the seconds the form denotes, without any range
\* check of the components.
C1_ParseSupportedForms ==
    (time_res # Pending /\ SupportedForm(time_form))
        => time_res = Ok(FormSeconds(time_form))

\* '99:99' was parsed to 6039.
C1_Witness ==
    /\ time_str = PyStr(<<"9", "9", ":", "9", "9">>)
    /\ time_res = Ok(6039)

-----------------------------------------------------------------------------
(* Claims about parse_youtube_url (SpecUrl) *)

\* The value of the first name=value parameter the URL was written with that
\* has this name and a value, None when there is none.
FirstParam(f, name) ==
    LET hits == {i \in 1..Len(f.params) :
                    f.params[i].name = name /\ f.params[i].value # <<>>}
    IN  IF hits = {} THEN PyNone
        ELSE PyStr(f.params[CHOOSE i \in hits : \A j \in hits : i <= j].value)

IsWatchForm(f) == f.prefix.site = "watch" /\ f.path = S_watch
IsShortForm(f) == f.prefix.site = "short"

PathWithoutSlash(f) ==
    IF f.path # <<>> /\ f.path[1] = "/" THEN Tail(f.path) ELSE f.path

\* The video id a watch or short URL names.
NamedId(f) ==
    IF IsWatchForm(f) THEN FirstParam(f, S_v) ELSE PyStr(PathWithoutSlash(f))

\* C2: on a watch URL the video id is the value of v, on a short URL the path
\* without its leading slash; the inline start is _parse_time_param of t when
\* the URL carries a t value (42 for t=42, 90 for t=1m30s) and None otherwise,
\* whatever other parameters there are.
C2_WatchAndShortUrls ==
    (/\ url_res # Pending
     /\ IsWatchForm(url_form) \/ IsShortForm(url_form)
     /\ NamedId(url_form).tag = "str"
     /\ NamedId(url_form).s # <<>>)
    => LET id == NamedId(url_form).s
           t == FirstParam(url_form, S_t)
       IN  /\ t.tag = "none" => url_res = Ok([video_id |-> id, start_time |-> PyNone])
           /\ (t.tag = "str" /\ ParseTimeParam(t).st = "ok") =>
                 url_res = Ok([video_id |-> id, start_time |-> PyInt(ParseTimeParam(t).val)])
           /\ (t.tag = "str" /\ ParseTimeParam(t).st = "raise") =>
                 url_res = ParseTimeParam(t)
           /\ t = PyStr(<<"4", "2">>) => url_res.val.start_time = PyInt(42)
           /\ t = PyStr(<<"1", "m", "3", "0", "s">>) => url_res.val.start_time = PyInt(90)

\* https://www.youtube.com/watch?si=abc&t=1m30s&v=dQw4 gave (dQw4, 90), or
\* https://youtu.be/dQw4?t=1m30s did.
C2_Witness ==
    /\ url_res = Ok([video_id |-> S_id1, start_time |-> PyInt(90)])
    /\ \/ /\ url_form.prefix.host = S_www_youtube_com
          /\ Len(url_form.params) = 2
          /\ url_form.params[1].name = S_t
       \/ /\ url_form.prefix.host = S_youtu_be
          /\ Len(url_form.params) = 1

S_embed_id1 == <<"/">> \o S_embed \o S_id1

\* C3 (as claimed): every URL containing 'youtube.com/embed/' followed by an
\* identifier parses to that identifier and to the integer value of its start
\* parameter, None when it has none.
C3_EmbedUrlsParse ==
    (/\ url_res # Pending
     /\ Contains(url, S_youtube_embed)
     /\ url_form.path = S_embed_id1
     /\ LET st == FirstParam(url_form, S_start)
        IN  st.tag = "none" \/ IsDigit(st.s))
    => LET st == FirstParam(url_form, S_start)
       IN  url_res = Ok([video_id |-> S_id1,
                         start_time |-> IF st.tag = "none" THEN PyNone
                                        ELSE PyInt(DecValue(st.s))])

\* Shape 3 applies: an identifier follows youtube.com/embed/.
EmbedExtractable(f) ==
    f.path = S_embed_id1 /\ Contains(Lower(WrittenUrl(f)), S_youtube_embed)

\* No video identifier can be extracted by any of the three shapes.
NoVideoId(f) ==
    \/ f.prefix.site \in {"other", "none"} /\ ~EmbedExtractable(f)
    \/ f.prefix.site = "watch" /\ f.path # S_watch /\ ~EmbedExtractable(f)
    \/ IsWatchForm(f) /\ FirstParam(f, S_v).tag = "none"
    \/ IsShortForm(f) /\ PathWithoutSlash(f) = <<>>

\* C4 (as claimed): every URL without an extractable video id fails with
\* 'Could not extract video ID from URL', and a returned video id is never
\* empty.
C4_NoIdRaisesCouldNotExtract ==
    /\ (url_res # Pending /\ NoVideoId(url_form)) => url_res = Raise(CouldNotExtract)
    /\ url_res.st = "ok" => url_res.val.video_id # <<>>

\* The t value of a watch or short URL is parsed before the video id is
\* tested, and cannot be converted.
TimeParamFailsFirst(f) ==
    /\ IsWatchForm(f) \/ IsShortForm(f)
    /\ FirstParam(f, S_t).tag = "str"
    /\ ParseTimeParam(FirstParam(f, S_t)).st = "raise"

\* C4 (amended): every URL without an extractable video id fails with a
\* ValueError: 'Could not extract video ID from URL', unless the t value of a
\* watch or short URL cannot be converted, which raises int()'s ValueError
\* first; a returned video id is never empty.
C4_NoIdRaisesValueError ==
    /\ (url_res # Pending /\ NoVideoId(url_form)) =>
          url_res = IF TimeParamFailsFirst(url_form) THEN Raise(InvalidLiteral)
                    ELSE Raise(CouldNotExtract)
    /\ url_res.st = "ok" => url_res.val.video_id # <<>>

\* https://youtu.be failed with 'Could not extract video ID from URL', and so
\* did a watch URL without v.
C4_Witness ==
    /\ url_res = Raise(CouldNotExtract)
    /\ \/ IsShortForm(url_form) /\ url_form.path = <<>>
       \/ IsWatchForm(url_form) /\ url_form.params = <<>>

-----------------------------------------------------------------------------
(* Claims about extract_segment (SpecExtract) *)

EntryA == [start |-> 0, duration |-> 5, text |-> <<"a">>]
EntryB == [start |-> 5, duration |-> 5, text |-> <<"b">>]
EntryC == [start |-> 10, duration |-> 5, text |-> <<"c">>]

\* The positions of the entries of tr whose closed interval meets [s, e].
WindowIndices(tr, s, e) ==
    {i \in 1..Len(tr) : tr[i].start + tr[i].duration >= s /\ tr[i].start <= e}

\* The k-th smallest member of a set of positions.
Nth(idx, k) == CHOOSE i \in idx : Cardinality({j \in idx : j <= i}) = k

\* sub is full restricted to the positions idx, in order.
RestrictedTo(sub, full, idx) ==
    /\ Len(sub) = Cardinality(idx)
    /\ \A k \in 1..Len(sub) : sub[k] = full[Nth(idx, k)]

\* C5: raw_segments holds exactly the entries of the fetched transcript with
\* start + duration >= start_seconds and start <= end_seconds; for a, b, c and
\* the point window 5..5 these are a and b.
C5_ClosedIntervalOverlap ==
    segment.st = "ok" =>
        LET v == segment.val
            tr == transcript.val
        IN  /\ RestrictedTo(v.raw_segments, tr,
                            WindowIndices(tr, v.start_time, v.end_time))
            /\ (tr = <<EntryA, EntryB, EntryC>> /\ v.start_time = 5 /\ v.end_time = 5)
                   => v.raw_segments = <<EntryA, EntryB>>

\* a, b, c with the window 5..5 gave a and b.
C5_Witness ==
    /\ segment.st = "ok"
    /\ transcript = Ok(<<EntryA, EntryB, EntryC>>)
    /\ segment.val.start_time = 5
    /\ segment.val.end_time = 5
    /\ segment.val.raw_segments = <<EntryA, EntryB>>

\* The texts ts[1..k] with one space between neighbours.
RECURSIVE SpacedUpTo(_, _)
SpacedUpTo(ts, k) ==
    IF k = 0 THEN <<>>
    ELSE IF k = 1 THEN ts[1]
    ELSE SpacedUpTo(ts, k - 1) \o <<" ">> \o ts[k]

\* C6: the transcript text is the texts of raw_segments joined with exactly one
\* space, and raw_segments is a subsequence of the fetched transcript in its
\* order, as long as the set of overlapping entries: nothing is re-sorted,
\* merged or dropped as a duplicate; a, b, c with window 3..12 give 'a b c'.
C6_SpaceJoinedInOrder ==
    segment.st = "ok" =>
        LET v == segment.val
            tr == transcript.val
        IN  /\ v.transcript =
                  SpacedUpTo([k \in 1..Len(v.raw_segments) |-> v.raw_segments[k].text],
                             Len(v.raw_segments))
            /\ \E idx \in SUBSET (1..Len(tr)) : RestrictedTo(v.raw_segments, tr, idx)
            /\ Len(v.raw_segments) =
                  Cardinality(WindowIndices(tr, v.start_time, v.end_time))
            /\ (tr = <<EntryA, EntryB, EntryC>> /\ v.start_time = 3 /\ v.end_time = 12)
                   => /\ v.raw_segments = <<EntryA, EntryB, EntryC>>
                      /\ v.transcript = <<"a", " ", "b", " ", "c">>

\* a, b, c with the window 3..12 gave 'a b c'.
C6_Witness ==
    /\ segment.st = "ok"
    /\ transcript = Ok(<<EntryA, EntryB, EntryC>>)
    /\ segment.val.start_time = 3
    /\ segment.val.end_time = 12
    /\ segment.val.transcript = <<"a", " ", "b", " ", "c">>

S_0_00_40 == <<"0", ":", "0", "0", ":", "4", "0">>
S_0_30 == <<"0", ":", "3", "0">>

\* C7: an explicit end_time is the end of the result (parsed when it is a
\* string: '0:00:40' is 40), whatever the duration and the transcript.
C7_ExplicitEndWins ==
    (segment.st = "ok" /\ args.end_time.tag # "none") =>
        /\ args.end_time.tag = "int" => segment.val.end_time = args.end_time.n
        /\ args.end_time.tag = "str" =>
              segment.val.end_time = ParseTimeParam(args.end_time).val
        /\ args.end_time = PyStr(S_0_00_40) => segment.val.end_time = 40

\* end_time '0:00:40' with duration 20 and a transcript ending at 15 gave 40.
C7_Witness ==
    /\ segment.st = "ok"
    /\ args.end_time = PyStr(S_0_00_40)
    /\ args.duration = PyInt(20)
    /\ transcript = Ok(<<EntryA, EntryB, EntryC>>)
    /\ segment.val.end_time = 40

\* C8 (as claimed): without end_time and with a duration D >= 0, 0 included,
\* the end is start_seconds + D.
C8_DurationGivesEnd ==
    (/\ segment.st = "ok"
     /\ args.end_time.tag = "none"
     /\ args.duration.tag = "int"
     /\ args.duration.n >= 0)
    => segment.val.end_time = segment.val.start_time + args.duration.n

\* C9: with neither end_time nor duration the end is start + duration of the
\* last entry of the fetched transcript; on an empty transcript the call
\* returns normally with end = start, no text and no raw_segments.
C9_RunsToLastEntry ==
    (/\ segment # Pending
     /\ transcript.st = "ok"
     /\ args.end_time.tag = "none"
     /\ args.duration.tag = "none")
    => LET tr == transcript.val
       IN  /\ segment.st = "ok"
           /\ tr # <<>> => segment.val.end_time =
                               tr[Len(tr)].start + tr[Len(tr)].duration
           /\ tr = <<>> => /\ segment.val.end_time = segment.val.start_time
                           /\ segment.val.transcript = <<>>
                           /\ segment.val.raw_segments = <<>>

\* An empty transcript for https://youtu.be/dQw4?t=45 gave the window 45..45.
C9_Witness ==
    /\ segment.st = "ok"
    /\ transcript = Ok(<<>>)
    /\ args.end_time = PyNone
    /\ args.duration = PyNone
    /\ segment.val.start_time = 45
    /\ segment.val.end_time = 45
    /\ segment.val.raw_segments = <<>>

\* C10: the start of the window is the start_time argument when given (parsed
\* when it is a string), else the timestamp of the URL, else 0, and the result
\* carries exactly this value as start_time.
C10_StartResolution ==
    segment.st = "ok" =>
        LET t == FirstParam(args.form, S_t)
        IN  /\ args.start_time.tag = "int" =>
                  segment.val.start_time = args.start_time.n
            /\ args.start_time.tag = "str" =>
                  segment.val.start_time = ParseTimeParam(args.start_time).val
            /\ args.start_time = PyStr(S_0_30) => segment.val.start_time = 30
            /\ (args.start_time.tag = "none" /\ t.tag = "str") =>
                  segment.val.start_time = ParseTimeParam(t).val
            /\ (args.start_time.tag = "none" /\ t = PyStr(<<"4", "5">>)) =>
                  segment.val.start_time = 45
            /\ (args.start_time.tag = "none" /\ t.tag = "none") =>
                  segment.val.start_time = 0

\* start_time 10 on a URL with t=45 gave a window starting at 10 whose first
\* selected entry starts at 5.
C10_Witness ==
    /\ segment.st = "ok"
    /\ args.start_time = PyInt(10)
    /\ FirstParam(args.form, S_t) = PyStr(<<"4", "5">>)
    /\ segment.val.start_time = 10
    /\ segment.val.raw_segments # <<>>
    /\ segment.val.raw_segments[1].start = 5

-----------------------------------------------------------------------------
(* Claims about repeated calls (SpecExtract) *)

-----------------------------------------------------------------------------
(* Claims about the resolved window (SpecExtract) *)

\* C12 (as claimed): every VideoSegment returned has end_time >= start_time.
C12_EndNotBeforeStart ==
    segment.st = "ok" => segment.val.end_time >= segment.val.start_time

\* C13 (as claimed): when the resolved end equals the resolved start, the
\* result has no raw_segments and an empty transcript.
C13_EmptyWindowYieldsNothing ==
    (segment.st = "ok" /\ segment.val.end_time = segment.val.start_time)
        => segment.val.raw_segments = <<>> /\ segment.val.transcript = <<>>

\* The positions of the entries of tr whose closed interval holds the instant s.
TouchingIndices(tr, s) ==
    {i \in 1..Len(tr) : tr[i].start <= s /\ s <= tr[i].start + tr[i].duration}

\* C13 (amended): when the resolved end equals the resolved start, raw_segments
\* holds exactly the entries whose closed interval [start, start + duration]
\* holds that instant, and the transcript is their texts; both are empty only
\* when no entry touches the instant.
C13_PointWindowTouching ==
    (segment.st = "ok" /\ segment.val.end_time = segment.val.start_time) =>
        LET v == segment.val
            idx == TouchingIndices(transcript.val, v.start_time)
        IN  /\ RestrictedTo(v.raw_segments, transcript.val, idx)
            /\ (v.raw_segments = <<>>) <=> (idx = {})
            /\ (v.transcript = <<>>) <=> (idx = {})

\* The window 5..5 over a, b, c gave the captions a and b.
C13_Witness ==
    /\ segment.st = "ok"
    /\ args.start_time = PyInt(5)
    /\ args.end_time = PyInt(5)
    /\ transcript = Ok(<<EntryA, EntryB, EntryC>>)
    /\ segment.val.transcript = <<"a", " ", "b">>

-----------------------------------------------------------------------------
(* Claims about unsupported time strings (SpecTime) *)

\* C14 (as claimed): whenever _parse_time_param returns a value, the value is
\* an integer >= 0, also for strings with a minus sign.
C14_NeverNegative ==
    time_res.st = "ok" => time_res.val >= 0

\* The orders in which n components can be written.
ComponentOrders(n) == {p \in [1..n -> 1..n] : \A i, j \in 1..n : i # j => p[i] # p[j]}

\* C15: a string of at most one <N>h, one <N>m and one <N>s component gives
\* 3600*H + 60*M + S, and gives the same in whatever order the components are
\* written; a missing unit counts 0.
C15_MarkerOrderIndependent ==
    (time_res # Pending /\ time_form.kind = "marker") =>
        /\ time_res = Ok(FormSeconds(time_form))
        /\ \A p \in ComponentOrders(Len(time_form.comps)) :
              ParseTimeParam(PyStr(WrittenMarker(
                  [i \in DOMAIN p |-> time_form.comps[p[i]]],
                  [i \in DOMAIN p |-> time_form.units[p[i]]]))) = time_res

\* '45s30m1h' was parsed to 5445.
C15_Witness ==
    /\ time_str = PyStr(<<"4", "5", "s", "3", "0", "m", "1", "h">>)
    /\ time_res = Ok(5445)

\* The number of colon-separated parts of the string under test.
ColonParts == IF time_str.tag = "str" THEN Len(Split(time_str.s, ":")) ELSE 0

\* C16 (as claimed): a string of more than three colon-separated parts returns
\* no number, the call raises.
C16_TooManyPartsRaises ==
    (time_res # Pending /\ ColonParts > 3) => time_res.st = "raise"

\* A decimal integer in the notation of Python: between blanks, at most one
\* sign, then digits, of which neighbours may be set apart by one underscore.
IsDecimalInteger(part) ==
    \E i, j \in 1..Len(part) :
        /\ i <= j
        /\ \A k \in 1..Len(part) : (k < i \/ k > j) => part[k] = " "
        /\ part[j] \in Digits
        /\ \/ part[i] \in Digits
           \/ i < j /\ part[i] \in {"-", "+"} /\ part[i + 1] \in Digits
        /\ \A k \in (i + 1)..j :
              \/ part[k] \in Digits
              \/ part[k] = "_" /\ part[k - 1] \in Digits /\ part[k + 1] \in Digits

\* C17: a string of two or three colon-separated parts one of which is not a
\* decimal integer raises int()'s ValueError; the marker rule gives it no value.
C17_BadColonPartRaises ==
    (/\ time_res # Pending
     /\ ColonParts \in {2, 3}
     /\ \E i \in 1..ColonParts : ~IsDecimalInteger(Split(time_str.s, ":")[i]))
    => time_res = Raise(InvalidLiteral)

\* '1:30s', in which the marker rule would find 30 seconds, raised.
C17_Witness ==
    /\ time_str = PyStr(<<"1", ":", "3", "0", "s">>)
    /\ MarkerSeconds(time_str.s) = 30
    /\ time_res = Raise(InvalidLiteral)

-----------------------------------------------------------------------------
(* Claims about an extraction run (SpecRun) *)

\* The stage of the pipeline a step belongs to: 1 the parse of the URL and of
\* the start, 2 the transcript fetch, 3 the selection, 4 the summarization,
\* 5 the storage.
Stage(op) ==
    CASE op \in {"parse_url", "resolve_start"} -> 1
      [] op \in {"list", "find_manually_created_transcript",
                 "find_generated_transcript", "find_transcript", "fetch"} -> 2
      [] op = "select" -> 3
      [] op = "llm" -> 4
      [] op \in {"save", "segment_write", "video_write"} -> 5

\* The step a stage begins with and the step it returns with.
FirstStep(k) == <<"parse_url", "list", "select", "llm", "save">>[k]
LastStep(k) == <<"resolve_start", "fetch", "select", "llm", "video_write">>[k]

\* A lookup whose failure the next alternative catches.
CaughtLookup(e) ==
    e.op \in {"find_manually_created_transcript", "find_generated_transcript"}

\* C18: a run takes the stages in the order URL parse, transcript fetch,
\* selection, summarization, storage; a stage begins only when the stage before
\* has returned without exception, and after an exception nothing more is
\* started: no fetch after an invalid URL, no LLM request after a transcript
\* failure, no storage write after an LLM failure.
C18_StagesInOrder ==
    /\ trace # <<>> => trace[1].op = "parse_url"
    /\ \A i \in 2..Len(trace) :
          /\ Stage(trace[i].op) \in {Stage(trace[i - 1].op), Stage(trace[i - 1].op) + 1}
          /\ Stage(trace[i].op) = Stage(trace[i - 1].op) + 1 =>
                /\ trace[i - 1].ok
                /\ trace[i - 1].op = LastStep(Stage(trace[i - 1].op))
                /\ trace[i].op = FirstStep(Stage(trace[i].op))
          /\ ~trace[i - 1].ok => CaughtLookup(trace[i - 1])
    /\ (trace # <<>> /\ ~trace[Len(trace)].ok /\ ~CaughtLookup(trace[Len(trace)]))
          => pc \in {"failed", "done"}
    /\ (\E i \in 1..Len(trace) : trace[i].op = "llm") => segment.st = "ok"
    /\ (\E i \in 1..Len(trace) : trace[i].op = "save") => summary.st = "ok"

\* A run went through all five stages and stored its document.
C18_Witness ==
    /\ pc = "done"
    /\ stored.st = "ok"
    /\ [i \in 1..Len(trace) |-> Stage(trace[i].op)] = <<1, 1, 2, 2, 2, 3, 4, 5, 5, 5>>

\* How often a request was sent in the run.
Times(op) == Cardinality({i \in 1..Len(trace) : trace[i].op = op})

\* C19: in one run the transcript listing, the content fetch, the completion
\* request and the segment document write are each sent at most once, also
\* when they fail: a failed request is the last one of the run.
C19_NoRetry ==
    /\ \A op \in {"list", "fetch", "llm", "segment_write"} : Times(op) <= 1
    /\ \A i \in 1..Len(trace) :
          (trace[i].op \in {"list", "fetch", "llm", "segment_write"} /\ ~trace[i].ok)
              => i = Len(trace) /\ pc \in {"failed", "done"}

\* The completion request failed after a fetched transcript: sent once, and
\* the run is over.
C19_Witness ==
    /\ pc = "failed"
    /\ trace # <<>>
    /\ trace[Len(trace)] = Event("llm", <<>>, FALSE)
    /\ Times("llm") = 1
    /\ Times("list") = 1
    /\ Times("fetch") = 1
    /\ summary = Raise(OpenAIError)

\* The requests of the fetch stage, in the order they were sent.
FetchSteps == SelectSeq(trace, LAMBDA e : Stage(e.op) = 2)

\* C20: fetch_transcript looks for a manually created transcript in ['en'],
\* then for an auto-generated one in ['en'], then for any transcript, each
\* alternative only after the one before failed, and fetches the content of
\* the first found; when the listing, all three lookups or the content fetch
\* fail, the caller gets the one exception 'Failed to fetch transcript'.
C20_LookupOrder ==
    /\ \A i \in 1..Len(FetchSteps) :
          LET e == FetchSteps[i]
              before == IF i = 1 THEN Event("none", <<>>, TRUE) ELSE FetchSteps[i - 1]
          IN  /\ e.op = "list" <=> i = 1
              /\ e.op = "find_manually_created_transcript" =>
                    before = Event("list", <<>>, TRUE) /\ e.languages = <<S_en>>
              /\ e.op = "find_generated_transcript" =>
                    /\ before = Event("find_manually_created_transcript", <<S_en>>, FALSE)
                    /\ e.languages = <<S_en>>
              /\ e.op = "find_transcript" =>
                    /\ before = Event("find_generated_transcript", <<S_en>>, FALSE)
                    /\ e.languages = <<>>
              /\ e.op = "fetch" => before.ok /\ Stage(before.op) = 2 /\ before.op # "list"
    /\ (\E i \in 1..Len(FetchSteps) :
            ~FetchSteps[i].ok /\ FetchSteps[i].op \in {"list", "find_transcript", "fetch"})
          <=> transcript = Raise(FetchFailed)
    /\ transcript = Raise(FetchFailed) =>
          /\ segment = Raise(FetchFailed)
          /\ summary = Raise(FetchFailed)
          /\ pc = "failed"
          /\ Stage(trace[Len(trace)].op) = 2

\* No manual and no generated transcript: the third lookup found one, and its
\* content was fetched.
C20_Witness ==
    /\ transcript.st = "ok"
    /\ [i \in 1..Len(FetchSteps) |-> FetchSteps[i].ok] = <<TRUE, FALSE, FALSE, TRUE, TRUE>>
    /\ FetchSteps[4].op = "find_transcript"

-----------------------------------------------------------------------------
(* C21 *)

\* C21: the video_id of the document save_summary_to_firestore writes is the
\* video identifier parse_youtube_url resolved from the URL of the request.
C21_StoredIdIsParsedId ==
    stored.st = "ok" =>
        /\ ParseYoutubeUrl(args.url).st = "ok"
        /\ stored.val.video_id = ParseYoutubeUrl(args.url).val.video_id

-----------------------------------------------------------------------------
(* C24 *)

StorageOps == {"save", "segment_write", "video_write"}

\* The fields of a TranscriptSummary the answer of the route carries.
CarriesSummary(data, sm) ==
    /\ data.url = sm.url
    /\ data.start_time = sm.start_time /\ data.end_time = sm.end_time
    /\ data.transcription = sm.transcription
    /\ data.summary = sm.summary
    /\ data.books = sm.books /\ data.people = sm.people /\ data.places = sm.places
    /\ data.facts = sm.facts /\ data.topics = sm.topics

\* C24: in the /extract route a failure of the Firestore save after the
\* summary was made does not fail the request: the answer has success true,
\* the whole summary and firestore_id None.  A failure of an earlier stage
\* (URL, start time, transcript, completion request) answers success false,
\* and no request to the storage was made.
C24_SaveFailureKeepsSuccess ==
    caller = "route" =>
        /\ (pc = "done" /\ stored.st = "raise") =>
               /\ route_result # Pending
               /\ route_result.success
               /\ summary.st = "ok"
               /\ CarriesSummary(route_result.data, summary.val)
               /\ route_result.data.firestore_id = PyNone
        /\ pc = "failed" =>
               /\ route_result # Pending
               /\ ~route_result.success
               /\ stored = Pending
               /\ \A i \in 1..Len(trace) : trace[i].op \notin StorageOps

\* A request whose summary was made and whose segment document was written,
\* but whose video document could not be: the answer is a success.
C24_Witness ==
    /\ caller = "route" /\ pc = "done" /\ stored.st = "raise"
    /\ trace[Len(trace)].op = "video_write"
    /\ route_result # Pending /\ route_result.success

-----------------------------------------------------------------------------
(* C25 *)

FiveLists(sm) == <<sm.books, sm.people, sm.places, sm.facts, sm.topics>>

\* C25: summarize_transcript gives process_video_segment a usable structure.
\* A reply that is no JSON is returned as the summary with five empty lists;
\* every TranscriptSummary built has a summary that is a string and five
\* lists none of which is None; a failed request is raised as the one
\* 'OpenAI API error' and builds no TranscriptSummary.
C25_SummaryAlwaysUsable ==
    /\ \A r \in LlmResponses :
          (pc = "summarize" /\ ~r.json) =>
              /\ SummaryData(r).summary = PyStr(Strip(r.content))
              /\ \A k \in {"books", "people", "places", "facts", "topics"} :
                    SummaryData(r)[k] = PyList(<<>>)
    /\ summary.st = "ok" =>
          /\ summary.val.summary.tag = "str"
          /\ \A i \in 1..5 : FiveLists(summary.val)[i].tag # "none"
    /\ (trace # <<>> /\ trace[Len(trace)].op = "llm" /\ ~trace[Len(trace)].ok) =>
          summary = Raise(OpenAIError)

-----------------------------------------------------------------------------
(* C22 *)

\* The fields of a summary document the round trip is about.
ListedFields ==
    {"video_id", "start_time", "end_time", "transcription", "summary",
     "books", "people", "places", "facts", "topics", "tags", "user_notes"}

\* r is a record with every listed field of d as d has it, and with
\* segment_id and id equal to i.
HoldsRecord(r, d, i) ==
    /\ r # PyNone
    /\ \A k \in ListedFields \cap DOMAIN d : k \in DOMAIN r /\ r[k] = d[k]
    /\ r.segment_id = i
    /\ r.id = i

\* The last call was get_complete_segment(i) for an i that
\* save_complete_segment returned and no update or delete was applied to.
GetOfSaved ==
    /\ call # Pending
    /\ call.op = "get_complete_segment"
    /\ call.arg \in DOMAIN saved
    /\ call.arg \notin touched

\* A call of save_complete_segment that returns an identifier gives one no
\* earlier call was given, and leaves every document of the collection as it
\* was.
FreshSave ==
    (issued' # issued /\ call'.op = "save_complete_segment" /\ call'.result.st = "ok") =>
        /\ call'.result.val \notin issued
        /\ \A i \in DOMAIN segments : i \in DOMAIN segments' /\ segments'[i] = segments[i]

-----------------------------------------------------------------------------
(* C26 *)

\* The documents of the collection 'segments' that belong to the video v.
SegmentsOfVideo(v) ==
    {i \in DOMAIN segments : DictGet(segments[i], "video_id", S_unknown) = v}

\* C26: as long as no call has raised, the segment_count of every video
\* document is the number of segment documents of that video.
C26_CountMatchesDocuments ==
    ~raised =>
        \A v \in DOMAIN videos : videos[v].segment_count = Cardinality(SegmentsOfVideo(v))

-----------------------------------------------------------------------------
(* C27 *)

\* The step is a call of save_segment or of save_complete_segment.
SaveCall ==
    issued' # issued /\ call'.op \in {"save_segment", "save_complete_segment"}

\* C27: a save that raises leaves the collections as they were; a save that
\* returns an identifier has written the segment document and has
\* incremented the segment_count of the video.
C27_FailedSaveLeavesNothing ==
    [][SaveCall =>
         /\ call'.result.st = "raise" => (segments' = segments /\ videos' = videos)
         /\ call'.result.st = "ok" =>
               /\ call'.result.val \in DOMAIN segments'
               /\ SegmentCount(videos', DictGet(call'.arg, "video_id", S_unknown))
                    = SegmentCount(videos, DictGet(call'.arg, "video_id", S_unknown)) + 1]_vars

-----------------------------------------------------------------------------
(* C28 *)

\* How many parameters named t the query of the URL u has.
TimeParameters(u) ==
    Cardinality({i \in 1..Len(ParseQs(UrlSplit(u).query)) :
                    ParseQs(UrlSplit(u).query)[i].name = S_t})

\* C28: the url of the VideoSegment extract_segment returns goes through the
\* parser again: parse_youtube_url gives for it the video_id it gave for the
\* URL of the call and an inline start equal to the start_time of the
\* segment, and the url has exactly one parameter t.
C28_SegmentUrlRoundTrip ==
    segment.st = "ok" =>
        /\ ParseYoutubeUrl(segment.val.url).st = "ok"
        /\ ParseYoutubeUrl(segment.val.url).val.video_id
             = ParseYoutubeUrl(args.url).val.video_id
        /\ ParseYoutubeUrl(segment.val.url).val.start_time = PyInt(segment.val.start_time)
        /\ TimeParameters(segment.val.url) = 1

-----------------------------------------------------------------------------
(* C29 *)

\* C29: for every URL parse_youtube_url accepts, extract_video_id of the
\* frontend, get_video_id_from_url of retrieve_video_summaries and the
\* extraction inside save_summary_to_firestore give the video identifier
\* parse_youtube_url gives.
C29_ExtractorsAgree ==
    url_res.st = "ok" =>
        /\ ExtractVideoId(url) = url_res.val.video_id
        /\ GetVideoIdFromUrl(url) = url_res.val.video_id
        /\ SavedVideoId(url) = url_res.val.video_id

-----------------------------------------------------------------------------
(* C30 *)

\* The parts of a timestamp between its colons.
StampParts == Split(time_str.s, ":")

\* A part of two digits that reads as a number of 0..59.
IsSexagesimal(part) == Len(part) = 2 /\ IsDigit(part) /\ DecValue(part) \in 0..59

\* C30: for a whole number n >= 0 of seconds, _parse_time_param gives n for
\* what _seconds_to_timestamp wrote, and that is MM:SS when n < 3600 and
\* HH:MM:SS otherwise, with minutes and seconds in 0..59.
C30_TimestampRoundTrip ==
    time_form.kind = "seconds" =>
        /\ time_res # Pending => time_res = Ok(time_form.seconds)
        /\ time_str # PyNone =>
              /\ Len(StampParts) = IF time_form.seconds < 3600 THEN 2 ELSE 3
              /\ IsSexagesimal(StampParts[Len(StampParts)])
              /\ IsSexagesimal(StampParts[Len(StampParts) - 1])
              /\ IsDigit(StampParts[1])

\* The timestamp of an hour, a minute and a second was written with hours
\* and read back.
C30_Witness ==
    /\ time_form.kind = "seconds"
    /\ time_form.seconds = 3661
    /\ time_str = PyStr(<<"0", "1", ":", "0", "1", ":", "0", "1">>)
    /\ time_res = Ok(3661)

-----------------------------------------------------------------------------
(* C23 *)

\* What a call returns when no other call runs.
Alone(op, arg, given) ==
    CASE op = "parse_youtube_url" -> ParseYoutubeUrl(arg)
      [] op = "_parse_time_param" -> ParseTimeParam(arg)
      [] op = "select" ->
            Ok([transcript |->
                    JoinSpace(SelectLoop(given, arg.start_seconds, arg.end_seconds).combined_text),
                raw_segments |->
                    SelectLoop(given, arg.start_seconds, arg.end_seconds).relevant_segments])

\* C23: in any interleaving of calls of URL parsing, time parsing and segment
\* selection by concurrent callers on one extractor, a call that returned
\* gave what it gives when run alone, the caption list is the one the call
\* was given, and the extractor has the fields it was constructed with.
C23_CallsShareNothing ==
    \A t \in DOMAIN threads :
        /\ threads[t].pc = "returned"
              => threads[t].result = Alone(threads[t].op, threads[t].arg, threads[t].given)
        /\ threads[t].pc # "idle" => captions = threads[t].given
        /\ extractor = ExtractorFields

\* A selection returned the entries it selected while a URL parsing by the
\* other caller is between its statements.
C23_Witness ==
    /\ threads # <<>>
    /\ threads[1].pc = "returned" /\ threads[1].op = "select"
    /\ threads[1].result.val.raw_segments # <<>>
    /\ threads[2].pc = "parsed" /\ threads[2].op = "parse_youtube_url"

====
